---- MODULE Spec2Model ----
(***************************************************************************)
(* A model of llaminal: the PTY shell wrapper with its escape-gesture      *)
(* detector (shell.py), the marker-based command executor                  *)
(* (pty_executor.py), the streaming tool-calling agent loop (agent.py),    *)
(* the scrollback compression (scrollback.py), the message store           *)
(* (storage.py) and the stream of the model client (client.py).            *)
(*                                                                         *)
(* The module holds these specifications over one set of variables:        *)
(*   SpecGesture  terminal input: gesture detector, timers, AI-mode entry  *)
(*   SpecAiInput  terminal input in AI mode: line editor, query tasks      *)
(*   SpecPty      PTY output: observers, echo-through, command executor    *)
(*   SpecMarker   the completion marker and its pattern, as text           *)
(*   SpecAgent    agent loop: rounds, tool calls, message history          *)
(*   SpecScrollback  compression of the scrollback and the context cap     *)
(*   SpecStore    saving and loading the messages of a session             *)
(*   SpecFormat   the cap on the output of an executed command             *)
(*   SpecStream   the lines of a streamed response and the deltas yielded  *)
(*   SpecAiQuery  terminal input from the AI prompt on, with query tasks   *)
(*   SpecChunking one terminal input read as one chunk and byte by byte     *)
(*   SpecPersist  the queries of a session and the messages they persist    *)
(*   SpecSession  spawn, run() and cleanup() of the wrapper; with the      *)
(*                fairness of the event loop it is SpecSessionFair         *)
(* Each specification leaves the variables of the others unchanged.        *)
(***************************************************************************)
EXTENDS Integers, Sequences, FiniteSets, TLC

(***************************************************************************)
(* Bounds of the model.                                                    *)
(***************************************************************************)
\* Bytes delivered by one read of the terminal input.
MaxChunkLen == 2
\* Reads of the terminal input in one behaviour.
MaxStdinReads == 3
\* Bytes kept in the AI-mode line buffer.
MaxLine == 1
\* Bytes written to the PTY master that the model keeps track of.
MaxMasterLog == 3
\* Confirmed executions of the command executor in one behaviour.
MaxExecs == 1
\* Outputs the shell prints by itself, outside the executor's commands.
MaxNoise == 1
\* Changes of the AI-mode flag while PTY output is watched.
MaxModeSwitches == 2
\* Bytes delivered by one read of the terminal input in SpecAiInput.
MaxAiChunkLen == 4
\* Reads of the terminal input in one behaviour of SpecAiInput.
MaxAiStdinReads == 2
\* Tool invocations of one query task.
MaxToolCalls == 1
\* Deltas the model server streams in one behaviour, over all rounds.
MaxDeltas == 3
\* Queries (turns) the user submits in one behaviour.
MaxTurns == 1

(***************************************************************************)
(* Bytes of the terminal input.  ESC is 0x1b; "f" and "e" are the shortcut *)
(* bytes; "x" stands for every other byte.                                 *)
(***************************************************************************)
ESC == "ESC"
StdinBytes == {ESC, "f", "e", "x"}
\* In AI mode: "CR" is Enter (0x0d) and "^C" is Ctrl+C (0x03).
AiStdinBytes == {ESC, "f", "CR", "^C"}

RECURSIVE SeqsUpTo(_, _)
SeqsUpTo(S, n) ==
    IF n = 0 THEN {<<>>}
    ELSE LET shorter == SeqsUpTo(S, n - 1)
         IN  shorter \cup {Append(s, x) : s \in {t \in shorter : Len(t) = n - 1}, x \in S}

StdinChunks == SeqsUpTo(StdinBytes, MaxChunkLen) \ {<<>>}
AiStdinChunks == SeqsUpTo(AiStdinBytes, MaxAiChunkLen) \ {<<>>}

VARIABLES
    \* ShellWrapper: escape detection state machine and mode flag
    esc_pending, double_esc_pending, esc_timer, shortcut_timer, ai_mode,
    \* AIMode: active flag and line editor
    ai_active, ai_buffer, ai_cursor_pos,
    \* AIMode: the flags _running_agent and _pty_executing, and the _run_query
    \* tasks created so far, each with its position and its tool invocations
    running_agent, pty_executing, queryTasks,
    \* bytes written to the PTY master, in order (what the shell receives)
    toMaster,
    \* observations: calls of _enter_ai_mode, of the fix-it and of the explain callback
    aiEnters, fixCalls, explainCalls,
    \* reads of the terminal input so far, and the handler that ran last
    stdinReads, lastEvent,
    \* ShellWrapper: registered PTY-output callbacks (a list) and echo-through flag
    on_master_output, show_pty_output,
    \* the PTY: whether its line discipline turns "\n" into "\r\n" (ONLCR), the
    \* output the shell has still to deliver, and the events counted so far
    onlcr, shellScript, noise, modeSwitches,
    \* observations: everything read from the PTY master, what reached the real
    \* terminal and what was fed to the scrollback emulator (token streams)
    readLog, terminalOut, scrollbackFed,
    \* PtyExecutor: counter, position of execute(), its locals and its last result
    counter, exec_pc, exec_cmd, marker, capture_buf, result_future, future_value,
    observersBefore, execRead, lastResult,
    \* the process id, two counter values and an exit status for which the
    \* marker and its pattern are computed, with what was computed
    markerProbe,
    \* the scrollback lines and the line limit for which the compression and
    \* get_context are computed, with what was computed
    scrollProbe,
    \* Storage: the session list that is being saved, AIMode._save_index, the
    \* tables of the database and what load_session returned last
    store,
    \* the command output, exit code and timeout flag for which _format_result is
    \* computed, with what was computed
    formatProbe,
    \* the lines of the response body of one stream_chat call, the position of its
    \* loop over them and the deltas it has yielded
    streamProbe,
    \* ShellWrapper as a process: its descriptor, pid, saved terminal mode and
    \* running flag, the readers and signal handlers of run(), the child and the
    \* terminal
    wrapper,
    \* the bytes of a terminal input for which _on_stdin_ready is run twice, once
    \* with the bytes in one chunk and once with one byte per chunk, with the state
    \* each run has reached
    chunkProbe,
    \* AIMode with its Session and Storage over a sequence of queries: the
    \* messages, _save_index, _running_agent, the database and the query tasks
    persist,
    \* Session.messages, and the position of _run_query / run_agent_loop
    messages, agent_pc,
    \* run_agent_loop: the locals of the round and the tool call being executed
    content_parts, tool_calls_by_index, tool_calls, tc_pos,
    \* observations: how the last turn ended, the requests issued and the
    \* messages the last one carried, the length of the history before the
    \* turn's user message, the round of the turn, and the counted inputs
    outcome, requests, lastRequest, turnStart, round, deltas, turns,
    \* observation: what the server has streamed in the round so far, the text
    \* and, per tool-call index, the name and the arguments
    streamed

agentVars == <<messages, agent_pc, content_parts, tool_calls_by_index, tool_calls,
               tc_pos, outcome, requests, lastRequest, turnStart, round, deltas, turns,
               streamed>>

gestureVars == <<esc_pending, double_esc_pending, esc_timer, shortcut_timer,
                 ai_active, ai_buffer, ai_cursor_pos,
                 running_agent, pty_executing, queryTasks,
                 aiEnters, fixCalls, explainCalls, stdinReads>>

probeVars == <<markerProbe, scrollProbe, store, formatProbe, streamProbe, wrapper, chunkProbe, persist>>

ptyVars == <<on_master_output, show_pty_output, onlcr, shellScript, noise, modeSwitches,
             readLog, terminalOut, scrollbackFed,
             counter, exec_pc, exec_cmd, marker, capture_buf, result_future,
             future_value, observersBefore, execRead, lastResult, probeVars>>

\* Every variable of the program; the probes are not among them.
programVars == <<gestureVars, agentVars, ai_mode, toMaster, lastEvent,
                 on_master_output, show_pty_output, onlcr, shellScript, noise,
                 modeSwitches, readLog, terminalOut, scrollbackFed, counter, exec_pc,
                 exec_cmd, marker, capture_buf, result_future, future_value,
                 observersBefore, execRead, lastResult>>

(***************************************************************************)
(* The detector and the AI-mode handler as one record, so that a handler   *)
(* that walks over the bytes of a chunk is an operator on that record.     *)
(***************************************************************************)
GestureState ==
    [esc_pending |-> esc_pending, double_esc_pending |-> double_esc_pending,
     esc_timer |-> esc_timer, shortcut_timer |-> shortcut_timer,
     ai_mode |-> ai_mode, ai_active |-> ai_active,
     ai_buffer |-> ai_buffer, ai_cursor_pos |-> ai_cursor_pos,
     running_agent |-> running_agent, pty_executing |-> pty_executing,
     queryTasks |-> queryTasks,
     toMaster |-> toMaster,
     aiEnters |-> aiEnters, fixCalls |-> fixCalls, explainCalls |-> explainCalls]

\* ShellWrapper._write_to_master
write_to_master(g, data) == [g EXCEPT !.toMaster = g.toMaster \o data]

\* AIMode.enter, the toggle callback of cli.py: active, empty line
ai_enter(g) == [g EXCEPT !.ai_active = TRUE, !.ai_buffer = <<>>, !.ai_cursor_pos = 0]

\* ShellWrapper._enter_ai_mode
enter_ai_mode(g) ==
    ai_enter([g EXCEPT !.ai_mode = TRUE, !.aiEnters = g.aiEnters + 1])

\* asyncio.get_running_loop().create_task(self._run_query(...)): the task is
\* scheduled; it starts to run after the handler that created it has returned
create_query_task(g) ==
    [g EXCEPT !.queryTasks = Append(g.queryTasks, [pc |-> "created", tools |-> 0])]

\* AIMode._enter_with_auto_query, reached from enter_fix_it / enter_explain_it
enter_with_auto_query(g) ==
    create_query_task(
        [g EXCEPT !.ai_active = TRUE, !.ai_buffer = <<>>, !.ai_cursor_pos = 0,
                  !.ai_mode = TRUE])

enter_fix_it(g) == enter_with_auto_query([g EXCEPT !.fixCalls = g.fixCalls + 1])

enter_explain_it(g) == enter_with_auto_query([g EXCEPT !.explainCalls = g.explainCalls + 1])

\* AIMode.exit that does not call the wrapper's exit_ai_mode
ai_exit_handler_only(g) ==
    [g EXCEPT !.ai_active = FALSE, !.ai_buffer = <<>>, !.ai_cursor_pos = 0]

\* AIMode.exit
ai_exit(g) ==
    [g EXCEPT !.ai_active = FALSE, !.ai_buffer = <<>>, !.ai_cursor_pos = 0,
              !.ai_mode = FALSE]

\* _cancel_shortcut_timer that leaves the timer armed
keep_shortcut_timer(g) == g

\* ShellWrapper._cancel_shortcut_timer
cancel_shortcut_timer(g) == [g EXCEPT !.shortcut_timer = FALSE]

\* _cancel_esc_timer that leaves the timer armed
keep_esc_timer(g) == g

\* ShellWrapper._cancel_esc_timer
cancel_esc_timer(g) == [g EXCEPT !.esc_timer = FALSE]

\* A detector that forwards the byte that resolves DOUBLE_ESC to the shell.
double_esc_byte_forwarding(g, byte) ==
    LET g1 == [cancel_shortcut_timer(g) EXCEPT !.double_esc_pending = FALSE]
    IN  IF byte = "f" THEN enter_fix_it(g1)
        ELSE IF byte = "e" THEN enter_explain_it(g1)
        ELSE enter_ai_mode(write_to_master(g1, <<byte>>))

\* The DOUBLE_ESC branch of _process_stdin_bytes: the byte resolves the gesture
\* and the handler returns (the rest of the chunk is not looked at).
double_esc_byte(g, byte) ==
    LET g1 == [cancel_shortcut_timer(g) EXCEPT !.double_esc_pending = FALSE]
    IN  IF byte = "f" THEN enter_fix_it(g1)
        ELSE IF byte = "e" THEN enter_explain_it(g1)
        ELSE enter_ai_mode(g1)

\* ShellWrapper._process_stdin_bytes: the while loop over the bytes of a chunk
RECURSIVE process_stdin_bytes(_, _)
process_stdin_bytes(g, data) ==
    IF data = <<>> THEN g
    ELSE LET byte == Head(data)
             rest == Tail(data)
         IN  IF g.double_esc_pending THEN double_esc_byte(g, byte)
             ELSE IF byte = ESC THEN
                 IF g.esc_pending
                 THEN process_stdin_bytes(
                          [cancel_esc_timer(g) EXCEPT !.esc_pending = FALSE,
                                                      !.double_esc_pending = TRUE,
                                                      !.shortcut_timer = TRUE],
                          rest)
                 ELSE process_stdin_bytes(
                          [g EXCEPT !.esc_pending = TRUE, !.esc_timer = TRUE], rest)
             ELSE IF g.esc_pending
                  THEN write_to_master(
                           [cancel_esc_timer(g) EXCEPT !.esc_pending = FALSE],
                           <<ESC>> \o data)
                  ELSE process_stdin_bytes(write_to_master(g, <<byte>>), rest)

\* The loop of AIMode.handle_input over the bytes of a chunk, for the bytes of
\* the model: ESC (not followed by "[") leaves AI mode and returns, Enter
\* submits a line that is not empty as a new query task and clears the line,
\* Ctrl+C clears the line, a printable byte is inserted at the cursor.
RECURSIVE handle_input_bytes(_, _)
handle_input_bytes(g, data) ==
    IF data = <<>> THEN g
    ELSE LET b == Head(data)
         IN  IF b = ESC THEN ai_exit(g)
             ELSE IF b = "CR" THEN
                 handle_input_bytes(
                     [(IF g.ai_buffer # <<>> THEN create_query_task(g) ELSE g)
                         EXCEPT !.ai_buffer = <<>>, !.ai_cursor_pos = 0],
                     Tail(data))
             ELSE IF b = "^C" THEN
                 handle_input_bytes(
                     [g EXCEPT !.ai_buffer = <<>>, !.ai_cursor_pos = 0], Tail(data))
             ELSE handle_input_bytes(
                      [g EXCEPT !.ai_buffer =
                                    SubSeq(g.ai_buffer, 1, g.ai_cursor_pos) \o <<b>> \o
                                    SubSeq(g.ai_buffer, g.ai_cursor_pos + 1, Len(g.ai_buffer)),
                                !.ai_cursor_pos = g.ai_cursor_pos + 1],
                      Tail(data))

\* b"\x03" in data
RECURSIVE Contains(_, _)
Contains(data, b) ==
    IF data = <<>> THEN FALSE ELSE Head(data) = b \/ Contains(Tail(data), b)

\* AIMode.handle_input: while the agent runs only Ctrl+C is looked at, and it
\* is written to the shell while a PTY tool executes
handle_input(g, data) ==
    IF g.running_agent
    THEN IF Contains(data, "^C") /\ g.pty_executing
         THEN write_to_master(g, <<"^C">>)
         ELSE g
    ELSE handle_input_bytes(g, data)

\* _on_stdin_ready without the test of _ai_mode: every chunk goes to the detector
on_stdin_ready_detecting(g, data) == process_stdin_bytes(g, data)

\* ShellWrapper._on_stdin_ready, after the read
on_stdin_ready(g, data) ==
    IF g.ai_mode THEN handle_input(g, data) ELSE process_stdin_bytes(g, data)

\* _esc_timeout_fired that drops the pending ESC instead of writing it
esc_timeout_dropping(g) == [g EXCEPT !.esc_pending = FALSE, !.esc_timer = FALSE]

\* ShellWrapper._esc_timeout_fired
esc_timeout_fired(g) ==
    write_to_master([g EXCEPT !.esc_pending = FALSE, !.esc_timer = FALSE], <<ESC>>)

\* _shortcut_timeout_fired that leaves the detector in DOUBLE_ESC
shortcut_timeout_keeping_state(g) == enter_ai_mode([g EXCEPT !.shortcut_timer = FALSE])

\* ShellWrapper._shortcut_timeout_fired
shortcut_timeout_fired(g) ==
    enter_ai_mode([g EXCEPT !.double_esc_pending = FALSE, !.shortcut_timer = FALSE])


(***************************************************************************)
(* PTY output as text.  A text is a sequence of tokens:                    *)
(*   "c"   the echoed command line (it holds the marker with a literal %d) *)
(*   "h"   a piece of command output,  "p"  the shell prompt               *)
(*   "LF"  "\n",  "CRLF"  "\r\n" (what the line discipline makes of "\n"   *)
(*         under ONLCR, the default of a PTY allocated by pty.openpty())   *)
(*   "M1", "M2", ...  the text ___LLAMINAL_DONE_<pid><counter>_ of the     *)
(*         execution with that counter value                               *)
(*   "0", "1"  decimal digits,  "E"  the closing "___"                     *)
(***************************************************************************)
MarkerToks == <<"M1", "M2", "M3", "M4">>
MarkerTok(n) == MarkerToks[n]
Digits == {"0", "1"}
Newlines == {"LF", "CRLF"}
Whitespace == {"LF", "CRLF"}

\* int(match.group(1))
RECURSIVE DigitsValue(_)
DigitsValue(ds) ==
    IF ds = <<>> THEN 0
    ELSE 10 * DigitsValue(SubSeq(ds, 1, Len(ds) - 1)) + (IF ds[Len(ds)] = "1" THEN 1 ELSE 0)

\* The end of the greedy \d+ that starts at position i (i - 1 when there is no digit).
RECURSIVE DigitsEnd(_, _)
DigitsEnd(t, i) ==
    IF i <= Len(t) /\ t[i] \in Digits THEN DigitsEnd(t, i + 1) ELSE i - 1

\* re.compile(rf"^{re.escape(marker)}_(\d+)___$", re.MULTILINE) matching at token i:
\* ^ is the start of the text or the place after a "\n"; $ is the end of the text
\* or the place before a "\n" (a "\r" before the "\n" is not the end of a line).
marker_match_at(t, m, i) ==
    /\ i \in 1..Len(t)
    /\ i = 1 \/ t[i - 1] \in Newlines
    /\ t[i] = MarkerTok(m)
    /\ LET e == DigitsEnd(t, i + 1)
       IN  /\ e >= i + 1
           /\ e + 1 <= Len(t)
           /\ t[e + 1] = "E"
           /\ e + 1 = Len(t) \/ t[e + 2] = "LF"

\* marker_pattern.search(accumulated): the leftmost match, 0 when there is none
marker_search(t, m) ==
    LET hits == {i \in 1..Len(t) : marker_match_at(t, m, i)}
    IN  IF hits = {} THEN 0 ELSE CHOOSE i \in hits : \A j \in hits : i <= j

\* accumulated.find("\n") + 1, as a count of tokens (0 when there is no newline)
first_newline(t) ==
    LET nls == {i \in 1..Len(t) : t[i] \in Newlines}
    IN  IF nls = {} THEN 0 ELSE CHOOSE i \in nls : \A j \in nls : i <= j

\* accumulated.rfind("\n", 0, start) + 1 for the text before token i
last_newline_before(t, i) ==
    LET nls == {k \in 1..(i - 1) : t[k] \in Newlines}
    IN  IF nls = {} THEN 0 ELSE CHOOSE k \in nls : \A j \in nls : k >= j

\* str.strip()
RECURSIVE strip(_)
strip(t) ==
    IF t = <<>> THEN <<>>
    ELSE IF Head(t) \in Whitespace THEN strip(Tail(t))
    ELSE IF t[Len(t)] \in Whitespace THEN strip(SubSeq(t, 1, Len(t) - 1))
    ELSE t

\* _extract_output(accumulated, command, marker, match), match.start() = token i
extract_output(t, i) ==
    LET cmd_end == first_newline(t)
        line_start == last_newline_before(t, i)
    IN  strip(SubSeq(t, cmd_end + 1, line_start))

\* _extract_output_raw(accumulated, command)
extract_output_raw(t) ==
    LET cmd_end == first_newline(t)
    IN  IF cmd_end = 0 THEN strip(t) ELSE strip(SubSeq(t, cmd_end + 1, Len(t)))

\* _format_result: the fields of the result string.  Output longer than
\* OutputCap characters keeps its first and last OutputKeep characters.
OutputCap == 10000
OutputKeep == 5000
\* "\n... (output truncated) ...\n"
TruncationNote == <<"LF", "... (output truncated) ...", "LF">>

\* A cap that cuts every output longer than the part kept at one end
capped_output_above_keep(output) ==
    IF Len(output) > OutputKeep
    THEN SubSeq(output, 1, OutputKeep) \o TruncationNote \o
         SubSeq(output, Len(output) - OutputKeep + 1, Len(output))
    ELSE output

\* output[:5_000] + note + output[-5_000:] when len(output) > 10_000
capped_output(output) ==
    IF Len(output) > OutputCap
    THEN SubSeq(output, 1, OutputKeep) \o TruncationNote \o
         SubSeq(output, Len(output) - OutputKeep + 1, Len(output))
    ELSE output

format_result(output, exit_code, timed_out) ==
    [kind |-> "result",
     stdout |-> capped_output(output),
     exit_code |-> exit_code,
     timed_out |-> timed_out]

\* the capture_callback closure of PtyExecutor.execute, on the executor's record;
\* capture_buf holds the chunks appended so far as the text b"".join(capture_buf)
capture_callback(x, data) ==
    LET buf == x.capture_buf \o data
        accumulated == buf
        match == marker_search(accumulated, x.marker)
    IN  IF match # 0 /\ x.result_future = "pending"
        THEN [x EXCEPT !.capture_buf = buf,
                       !.result_future = "done",
                       !.future_value =
                           [output |-> extract_output(accumulated, match),
                            exit_code |-> DigitsValue(SubSeq(accumulated, match + 1,
                                                            DigitsEnd(accumulated, match + 1)))]]
        ELSE [x EXCEPT !.capture_buf = buf]

\* ScrollbackCapture.feed: the emulator consumes the stream in the order fed
scrollback_feed(x, data) == [x EXCEPT !.scrollbackFed = x.scrollbackFed \o data]

\* one callback of ShellWrapper._on_master_output
call_observer(x, cb, data) ==
    IF cb = "scrollback" THEN scrollback_feed(x, data) ELSE capture_callback(x, data)

\* A wrapper that hands a chunk to the first registered observer only.
notify_first_observer_only(x, cbs, data) ==
    IF cbs = <<>> THEN x ELSE call_observer(x, Head(cbs), data)

\* for cb in self._on_master_output: cb(data)
RECURSIVE notify_observers(_, _, _)
notify_observers(x, cbs, data) ==
    IF cbs = <<>> THEN x
    ELSE notify_observers(call_observer(x, Head(cbs), data), Tail(cbs), data)

\* A wrapper that echoes PTY output only outside AI mode.
echo_outside_ai_mode_only(out, data, ai, show) ==
    IF ~ai THEN out \o data ELSE out

\* the echo to the real terminal in _on_master_ready
echo_to_terminal(out, data, ai, show) ==
    IF ~ai \/ show THEN out \o data ELSE out

PtyState ==
    [scrollbackFed |-> scrollbackFed, capture_buf |-> capture_buf,
     result_future |-> result_future, future_value |-> future_value,
     marker |-> marker]


(***************************************************************************)
(* The shell behind the PTY.  The executor writes                          *)
(*     <command>; printf '\n<marker>_%d___\n' $?\n                         *)
(* and the shell answers with the echoed command line, the command's       *)
(* output, an empty line, the marker line with the exit status, and its    *)
(* prompt; every "\n" it prints passes the PTY's line discipline.          *)
(***************************************************************************)
Commands == {"echo_hi", "false"}
eol == IF onlcr THEN "CRLF" ELSE "LF"
ExitStatus(cmd) == IF cmd = "false" THEN 1 ELSE 0
StatusDigit(cmd) == IF ExitStatus(cmd) = 1 THEN "1" ELSE "0"
CommandOutput(cmd) == IF cmd = "echo_hi" THEN <<"h">> ELSE <<>>
ShellScript(n, cmd) ==
    <<"c", eol>> \o
    (IF CommandOutput(cmd) = <<>> THEN <<>> ELSE CommandOutput(cmd) \o <<eol>>) \o
    <<eol, MarkerTok(n), StatusDigit(cmd), "E", eol, "p">>

\* self._wrapper._on_master_output.remove(capture_callback): the first occurrence
RECURSIVE remove_observer(_, _)
remove_observer(cbs, cb) ==
    IF cbs = <<>> THEN <<>>
    ELSE IF Head(cbs) = cb THEN Tail(cbs)
    ELSE <<Head(cbs)>> \o remove_observer(Tail(cbs), cb)

(***************************************************************************)
(* The agent loop.  A text is a sequence of fragments; "".join and += are  *)
(* concatenation.  The model server streams deltas: a content fragment, or *)
(* one tool-call delta with an index and, each optional, an id, a name     *)
(* fragment and an arguments fragment.                                     *)
(***************************************************************************)
NoKey == "NoKey"
ToolIndexes == {0, 1}
NoCall == [id |-> NoKey, name |-> <<>>, arguments |-> <<>>, present |-> FALSE]

\* A text is a sequence of symbols; a fragment of a text is a text, and the
\* fragment of a content delta may be empty.
ContentDeltas ==
    {[kind |-> "content", content |-> c] : c \in {<<>>, <<"a">>, <<"b">>, <<"a", "b">>}}

\* The name or the arguments of a tool-call delta that has no such key.
Absent == <<NoKey>>

\* The name of the bash tool, and the arguments text "{}", each of two symbols.
BashName == <<"ba", "sh">>
EmptyObject == <<"{", "}">>

\* The id, name fragment and arguments fragment a tool-call delta carries.
ToolDeltaShapes ==
    {[id |-> "id_a", name |-> BashName, arguments |-> EmptyObject],
     [id |-> NoKey, name |-> <<"nope">>, arguments |-> Absent],
     [id |-> "id_b", name |-> BashName, arguments |-> <<"[1]">>],
     [id |-> NoKey, name |-> Absent, arguments |-> <<"{">>],
     [id |-> "id_a", name |-> <<"ba">>, arguments |-> Absent],
     [id |-> NoKey, name |-> <<"sh">>, arguments |-> <<"}">>]}

ToolDeltas ==
    {[kind |-> "tool", index |-> i, id |-> sh.id, name |-> sh.name,
      arguments |-> sh.arguments] : i \in ToolIndexes, sh \in ToolDeltaShapes}

Deltas == ContentDeltas \cup ToolDeltas

\* One message of Session.messages; a key the dict does not have is <<>> or "".
Message(role, content, calls, call_id) ==
    [role |-> role, content |-> content, tool_calls |-> calls, tool_call_id |-> call_id]

SystemMessage == Message("system", <<"sys">>, <<>>, "")

\* Session.add_user (no shell context set)
add_user(msgs, content) == Append(msgs, Message("user", content, <<>>, ""))

\* A session that records the final text as a user message
add_assistant_as_user(msgs, content) == Append(msgs, Message("user", content, <<>>, ""))

\* Session.add_assistant
add_assistant(msgs, content) == Append(msgs, Message("assistant", content, <<>>, ""))

\* Session.add_assistant_tool_calls: the content key is set only for content
\* that is not empty
add_assistant_tool_calls(msgs, content, calls) ==
    Append(msgs, Message("assistant", content, calls, ""))

\* Session.add_tool_result
add_tool_result(msgs, tool_call_id, content) ==
    Append(msgs, Message("tool", content, <<>>, tool_call_id))

\* A session whose rollback removes the last message whatever its role.
pop_last_message(msgs) ==
    IF msgs # <<>> THEN SubSeq(msgs, 1, Len(msgs) - 1) ELSE msgs

\* _pop_last_user_message
pop_last_user_message(msgs) ==
    IF msgs # <<>> /\ msgs[Len(msgs)].role = "user"
    THEN SubSeq(msgs, 1, Len(msgs) - 1)
    ELSE msgs

\* A reassembly that keeps the last fragment only
JoinLast(parts) == IF parts = <<>> THEN <<>> ELSE parts[Len(parts)]

\* "".join(content_parts)
RECURSIVE Join(_)
Join(parts) == IF parts = <<>> THEN <<>> ELSE Head(parts) \o Join(Tail(parts))

\* The tool-call branch of the streaming loop for one tc_delta: the record of
\* the index is created on its first delta, with the delta's id or call_<idx>;
\* name and arguments fragments are appended.
DefaultId(idx) == IF idx = 0 THEN "call_0" ELSE "call_1"

\* The tool-call branch with "=" in place of "+=": a fragment replaces the text
accumulate_overwriting(acc, d) ==
    LET idx == d.index
        tc == IF acc[idx].present THEN acc[idx]
              ELSE [id |-> IF d.id = NoKey THEN DefaultId(idx) ELSE d.id,
                    name |-> <<>>, arguments |-> <<>>, present |-> TRUE]
    IN  [acc EXCEPT ![idx] =
            [tc EXCEPT !.name = IF d.name = Absent THEN tc.name ELSE d.name,
                       !.arguments = IF d.arguments = Absent THEN tc.arguments
                                     ELSE d.arguments]]

accumulate_tool_delta(acc, d) ==
    LET idx == d.index
        tc == IF acc[idx].present THEN acc[idx]
              ELSE [id |-> IF d.id = NoKey THEN DefaultId(idx) ELSE d.id,
                    name |-> <<>>, arguments |-> <<>>, present |-> TRUE]
    IN  [acc EXCEPT ![idx] =
            [tc EXCEPT !.name = IF d.name = Absent THEN tc.name ELSE tc.name \o d.name,
                       !.arguments = IF d.arguments = Absent THEN tc.arguments
                                     ELSE tc.arguments \o d.arguments]]

\* [tool_calls_by_index[i] for i in sorted(tool_calls_by_index)]
RECURSIVE sorted_tool_calls(_, _)
sorted_tool_calls(acc, idxs) ==
    IF idxs = {} THEN <<>>
    ELSE LET i == CHOOSE k \in idxs : \A j \in idxs : k <= j
         IN  (IF acc[i].present
              THEN <<[id |-> acc[i].id, name |-> acc[i].name, arguments |-> acc[i].arguments]>>
              ELSE <<>>) \o sorted_tool_calls(acc, idxs \ {i})

\* json.loads of the arguments text: an object, another JSON value, or an error
JsonKind(text) ==
    IF text = EmptyObject THEN "object"
    ELSE IF text = <<"[1]">> THEN "array"
    ELSE "invalid"

\* fn_args of the tool loop: {} for empty or unparsable arguments, otherwise
\* whatever json.loads returned
fn_args(text) ==
    IF text = <<>> THEN "dict"
    ELSE IF JsonKind(text) = "object" THEN "dict"
    ELSE IF JsonKind(text) = "array" THEN "not_a_dict"
    ELSE "dict"

\* render_tool_call: args.items() raises for a value that is not a dict
render_tool_call_raises(args) == args # "dict"

\* ToolRegistry.execute: the result string for a tool that is not registered,
\* that returned, or that raised
KnownTools == {BashName}
registry_execute(name, tool_raises) ==
    IF name \notin KnownTools THEN <<"Error: unknown tool">>
    ELSE IF tool_raises THEN <<"Error executing">>
    ELSE <<"ok">>

\* Nothing was streamed in the round.
NoStream == [text |-> <<>>, name |-> [i \in ToolIndexes |-> <<>>],
             arguments |-> [i \in ToolIndexes |-> <<>>]]

\* What was streamed, with the fragments of one more delta at their end.
stream_more(st, d) ==
    IF d.kind = "content"
    THEN [st EXCEPT !.text = @ \o d.content]
    ELSE [st EXCEPT !.name[d.index] = IF d.name = Absent THEN @ ELSE @ \o d.name,
                    !.arguments[d.index] =
                        IF d.arguments = Absent THEN @ ELSE @ \o d.arguments]

AgentInit ==
    /\ messages = <<SystemMessage>>
    /\ agent_pc = "idle"
    /\ content_parts = <<>>
    /\ tool_calls_by_index = [i \in ToolIndexes |-> NoCall]
    /\ tool_calls = <<>> /\ tc_pos = 0
    /\ outcome = "none" /\ requests = 0 /\ lastRequest = <<>>
    /\ turnStart = 0 /\ round = 0 /\ deltas = 0 /\ turns = 0
    /\ streamed = NoStream

(***************************************************************************)
(* Initial state: after ShellWrapper.__init__, AIMode.__init__,            *)
(* PtyExecutor.__init__ and the wiring of cli._run_shell.                  *)
(***************************************************************************)
GestureInit ==
    /\ esc_pending = FALSE /\ double_esc_pending = FALSE
    /\ esc_timer = FALSE /\ shortcut_timer = FALSE
    /\ ai_mode = FALSE /\ ai_active = FALSE
    /\ ai_buffer = <<>> /\ ai_cursor_pos = 0
    /\ running_agent = FALSE /\ pty_executing = FALSE /\ queryTasks = <<>>
    /\ toMaster = <<>>
    /\ aiEnters = 0 /\ fixCalls = 0 /\ explainCalls = 0
    /\ stdinReads = 0
    /\ lastEvent = [kind |-> "init"]

PtyInit ==
    /\ on_master_output = <<"scrollback">>
    /\ show_pty_output = FALSE
    /\ shellScript = <<>> /\ noise = 0 /\ modeSwitches = 0
    /\ readLog = <<>> /\ terminalOut = <<>> /\ scrollbackFed = <<>>
    /\ counter = 0 /\ exec_pc = "idle" /\ exec_cmd = "none" /\ marker = 0
    /\ capture_buf = <<>> /\ result_future = "none"
    /\ future_value = [output |-> <<>>, exit_code |-> 0]
    /\ observersBefore = <<>> /\ execRead = <<>>
    /\ lastResult = [kind |-> "none"]

\* Terminal input does not depend on the PTY's line discipline: the default.
\* The marker of an execution and its pattern, as text.  A text is a sequence
\* of characters; the fixed prefix of the marker is written as one element.
HexChars == <<"0", "1", "2", "3", "4", "5", "6", "7", "8", "9",
              "a", "b", "c", "d", "e", "f">>
DecChars == {"0", "1", "2", "3", "4", "5", "6", "7", "8", "9"}

\* f"{n:x}"
RECURSIVE Hex(_)
Hex(n) == IF n < 16 THEN <<HexChars[n + 1]>>
          ELSE Hex(n \div 16) \o <<HexChars[(n % 16) + 1]>>

\* f"{n:d}", what printf writes for %d
RECURSIVE Decimal(_)
Decimal(n) == IF n < 10 THEN <<HexChars[n + 1]>>
              ELSE Decimal(n \div 10) \o <<HexChars[(n % 10) + 1]>>

\* A marker id made of the low hexadecimal digit of the counter only
marker_id_low_digit(pid, count) == Hex(pid) \o Hex(count % 16)

\* marker_id = f"{os.getpid():x}{self._counter:x}"
marker_id(pid, count) == Hex(pid) \o Hex(count)

\* marker = f"___LLAMINAL_DONE_{marker_id}"
marker_text(pid, count) == <<"___LLAMINAL_DONE_">> \o marker_id(pid, count)

\* The line printf writes for the format "{marker}_%d___" and an exit status.
marker_line(mk, status) == mk \o <<"_">> \o Decimal(status) \o <<"_", "_", "_">>

\* The line the terminal echoes for cmd_str: the command, then the printf
\* call with the marker and the format's %d.
echo_line(cmd, mk) ==
    <<cmd, ";", " ", "printf '\\n">> \o mk \o <<"_", "%", "d", "_", "_", "_">>
        \o <<"\\n' $?">>

\* re.compile(rf"^{re.escape(marker)}_(\d+)___$", re.MULTILINE) on one line:
\* the line is the marker, "_", one or more digits and "___".
pattern_matches_line(mk, line) ==
    LET n == Len(mk)
        m == Len(line)
    IN  /\ m >= n + 5
        /\ SubSeq(line, 1, n) = mk
        /\ line[n + 1] = "_"
        /\ \A i \in (n + 2)..(m - 3) : line[i] \in DecChars
        /\ SubSeq(line, m - 2, m) = <<"_", "_", "_">>

\* marker_pattern.search(accumulated), the text given as its lines
pattern_search(mk, lines) ==
    \E k \in 1..Len(lines) : pattern_matches_line(mk, lines[k])

\* The process ids, counter values and exit statuses the markers are computed for.
MaxCounter == 17
Pids == {1, 26, 273, 4096}
ExitStatuses == {0, 1, 130}

\* No marker is being computed.
NoMarkerProbe == markerProbe = [pc |-> "none"]

\* No scrollback is being compressed.
NoScrollProbe == scrollProbe = [pc |-> "none"]

NoPersist == persist = [pc |-> "none"]

NoChunkProbe == chunkProbe = [pc |-> "none"]

\* The life cycle of the wrapper is not followed.
NoWrapper == wrapper = [pc |-> "none"]

\* No response body is being read.
NoStreamProbe == streamProbe = [pc |-> "none"]

\* No result is being formatted.
NoFormatProbe == formatProbe = [pc |-> "none"]

\* Nothing is being stored.
NoStore == store = [pc |-> "none"]

MarkerInit ==
    \E pid \in Pids, a \in 1..MaxCounter, b \in 1..MaxCounter, st \in ExitStatuses :
        markerProbe = [pc |-> "input", pid |-> pid, a |-> a, b |-> b, status |-> st]

\* Execution a of the process timed out or ran to its end, and execution b of
\* the same process is waiting: what b has captured holds the echo of its
\* command and then the marker line of a; with its own marker line after it.
MarkersComputed ==
    /\ markerProbe.pc = "input"
    /\ LET p == markerProbe
           mk_a == marker_text(p.pid, p.a)
           mk_b == marker_text(p.pid, p.b)
           late == <<echo_line("echo_hi", mk_b), marker_line(mk_a, p.status)>>
       IN  markerProbe' =
               [pc |-> "computed", pid |-> p.pid, a |-> p.a, b |-> p.b,
                status |-> p.status,
                marker_a |-> mk_a, marker_b |-> mk_b,
                late_matches |-> pattern_search(mk_b, late),
                own_matches |->
                    pattern_search(mk_b, Append(late, marker_line(mk_b, p.status)))]
    /\ UNCHANGED <<programVars, scrollProbe, store, formatProbe, streamProbe, wrapper, chunkProbe, persist>>

NextMarker == MarkersComputed

InitMarker == GestureInit /\ PtyInit /\ AgentInit /\ onlcr = TRUE /\ MarkerInit /\ NoScrollProbe /\ NoStore /\ NoFormatProbe /\ NoStreamProbe /\ NoWrapper /\ NoChunkProbe /\ NoPersist

InitGesture == GestureInit /\ PtyInit /\ AgentInit /\ onlcr = TRUE /\ NoMarkerProbe /\ NoScrollProbe /\ NoStore /\ NoFormatProbe /\ NoStreamProbe /\ NoWrapper /\ NoChunkProbe /\ NoPersist

(***************************************************************************)
(* Terminal input (SpecGesture).                                           *)
(***************************************************************************)
SetGesture(g) ==
    /\ esc_pending' = g.esc_pending
    /\ double_esc_pending' = g.double_esc_pending
    /\ esc_timer' = g.esc_timer
    /\ shortcut_timer' = g.shortcut_timer
    /\ ai_mode' = g.ai_mode
    /\ ai_active' = g.ai_active
    /\ ai_buffer' = g.ai_buffer
    /\ ai_cursor_pos' = g.ai_cursor_pos
    /\ running_agent' = g.running_agent
    /\ pty_executing' = g.pty_executing
    /\ queryTasks' = g.queryTasks
    /\ toMaster' = g.toMaster
    /\ aiEnters' = g.aiEnters
    /\ fixCalls' = g.fixCalls
    /\ explainCalls' = g.explainCalls

\* A task that was created runs before the event loop polls again: no reader
\* or timer callback runs between create_task and the task's first step.
NoTaskToStart == \A t \in 1..Len(queryTasks) : queryTasks[t].pc # "created"

\* The event loop calls _on_stdin_ready with the bytes of one read.
StdinReady(data) ==
    /\ NoTaskToStart
    /\ stdinReads < MaxStdinReads
    /\ LET g == on_stdin_ready(GestureState, data)
       IN  /\ Len(g.toMaster) <= MaxMasterLog
           /\ Len(g.ai_buffer) <= MaxLine
           /\ SetGesture(g)
    /\ stdinReads' = stdinReads + 1
    /\ lastEvent' = [kind |-> "stdin", data |-> data,
                     after_esc_timeout |-> lastEvent.kind = "esc_timeout"]
    /\ UNCHANGED <<ptyVars, agentVars>>

\* The 300 ms timer started by _start_esc_timer expires.
EscTimeoutFired ==
    /\ NoTaskToStart
    /\ esc_timer
    /\ Len(toMaster) < MaxMasterLog
    /\ SetGesture(esc_timeout_fired(GestureState))
    /\ lastEvent' = [kind |-> "esc_timeout"]
    /\ UNCHANGED <<stdinReads, ptyVars, agentVars>>

\* The 200 ms timer started by _start_shortcut_timer expires.
ShortcutTimeoutFired ==
    /\ NoTaskToStart
    /\ shortcut_timer
    /\ SetGesture(shortcut_timeout_fired(GestureState))
    /\ lastEvent' = [kind |-> "shortcut_timeout"]
    /\ UNCHANGED <<stdinReads, ptyVars, agentVars>>

\* The query tasks.  A task is at "created" (scheduled), "stream" (in
\* run_agent_loop, awaiting the model's stream), "tool" (awaiting a tool that
\* executes in the PTY) or "done".
SetTask(t, pc, tools) ==
    queryTasks' = [queryTasks EXCEPT ![t] = [pc |-> pc, tools |-> tools]]

\* AIMode._run_query starts: _running_agent is set, the user message is added
\* and run_agent_loop issues its first request.
QueryTaskStarts(t) ==
    /\ t \in 1..Len(queryTasks)
    /\ queryTasks[t].pc = "created"
    /\ \A u \in 1..(t - 1) : queryTasks[u].pc # "created"
    /\ running_agent' = TRUE
    /\ SetTask(t, "stream", 0)
    /\ lastEvent' = [kind |-> "task_starts"]
    /\ UNCHANGED <<esc_pending, double_esc_pending, esc_timer, shortcut_timer, ai_mode,
                   ai_active, ai_buffer, ai_cursor_pos, pty_executing, toMaster, aiEnters,
                   fixCalls, explainCalls, stdinReads, ptyVars, agentVars>>

\* The round of the task ends with a call of the bash tool: cli._pty_bash sets
\* _pty_executing and awaits PtyExecutor.execute, which was confirmed.
QueryToolBegins(t) ==
    /\ t \in 1..Len(queryTasks)
    /\ NoTaskToStart
    /\ queryTasks[t].pc = "stream"
    /\ queryTasks[t].tools < MaxToolCalls
    /\ pty_executing' = TRUE
    /\ SetTask(t, "tool", queryTasks[t].tools + 1)
    /\ lastEvent' = [kind |-> "tool_begins"]
    /\ UNCHANGED <<esc_pending, double_esc_pending, esc_timer, shortcut_timer, ai_mode,
                   ai_active, ai_buffer, ai_cursor_pos, running_agent, toMaster, aiEnters,
                   fixCalls, explainCalls, stdinReads, ptyVars, agentVars>>

\* PtyExecutor.execute returns: the finally of _pty_bash clears _pty_executing,
\* the result is recorded and the loop issues the next request.
QueryToolEnds(t) ==
    /\ t \in 1..Len(queryTasks)
    /\ NoTaskToStart
    /\ queryTasks[t].pc = "tool"
    /\ pty_executing' = FALSE
    /\ SetTask(t, "stream", queryTasks[t].tools)
    /\ lastEvent' = [kind |-> "tool_ends"]
    /\ UNCHANGED <<esc_pending, double_esc_pending, esc_timer, shortcut_timer, ai_mode,
                   ai_active, ai_buffer, ai_cursor_pos, running_agent, toMaster, aiEnters,
                   fixCalls, explainCalls, stdinReads, ptyVars, agentVars>>

\* run_agent_loop returns or raises: the finally of _run_query clears
\* _running_agent.
QueryTaskEnds(t) ==
    /\ t \in 1..Len(queryTasks)
    /\ NoTaskToStart
    /\ queryTasks[t].pc = "stream"
    /\ running_agent' = FALSE
    /\ SetTask(t, "done", queryTasks[t].tools)
    /\ lastEvent' = [kind |-> "task_ends"]
    /\ UNCHANGED <<esc_pending, double_esc_pending, esc_timer, shortcut_timer, ai_mode,
                   ai_active, ai_buffer, ai_cursor_pos, pty_executing, toMaster, aiEnters,
                   fixCalls, explainCalls, stdinReads, ptyVars, agentVars>>

\* Tasks of one behaviour: a line or a shortcut creates one.
TaskIds == 1..(MaxAiChunkLen + MaxChunkLen)

NextGesture ==
    \/ \E data \in StdinChunks : StdinReady(data)
    \/ EscTimeoutFired
    \/ ShortcutTimeoutFired
    \/ \E t \in TaskIds : QueryTaskStarts(t)
    \/ \E t \in TaskIds : QueryToolBegins(t)
    \/ \E t \in TaskIds : QueryToolEnds(t)
    \/ \E t \in TaskIds : QueryTaskEnds(t)

\* Terminal input with the bytes of the AI-mode line editor.
AiStdinReady(data) ==
    /\ stdinReads < MaxAiStdinReads
    /\ StdinReady(data)

NextAiInput ==
    \/ \E data \in AiStdinChunks : AiStdinReady(data)
    \/ EscTimeoutFired
    \/ ShortcutTimeoutFired
    \/ \E t \in TaskIds : QueryTaskStarts(t)
    \/ \E t \in TaskIds : QueryToolBegins(t)
    \/ \E t \in TaskIds : QueryToolEnds(t)
    \/ \E t \in TaskIds : QueryTaskEnds(t)

(***************************************************************************)
(* PTY output and the command executor (SpecPty).                          *)
(***************************************************************************)
\* The event loop calls _on_master_ready; os.read returns the next k tokens.
MasterReady(k) ==
    /\ k \in 1..Len(shellScript)
    /\ LET data == SubSeq(shellScript, 1, k)
           x == notify_observers(PtyState, on_master_output, data)
       IN  /\ shellScript' = SubSeq(shellScript, k + 1, Len(shellScript))
           /\ readLog' = readLog \o data
           /\ terminalOut' = echo_to_terminal(terminalOut, data, ai_mode, show_pty_output)
           /\ scrollbackFed' = x.scrollbackFed
           /\ capture_buf' = x.capture_buf
           /\ result_future' = x.result_future
           /\ future_value' = x.future_value
           /\ execRead' = IF exec_pc = "idle" THEN execRead ELSE execRead \o data
    /\ UNCHANGED <<agentVars, gestureVars, probeVars, lastEvent, ai_mode, toMaster, on_master_output, show_pty_output,
                   onlcr, noise, modeSwitches, counter, exec_pc, exec_cmd, marker, observersBefore,
                   lastResult>>

\* The shell prints output of its own (a prompt, a command the user typed).
ShellPrints ==
    /\ noise < MaxNoise
    /\ noise' = noise + 1
    /\ shellScript' = shellScript \o <<"h", eol>>
    /\ UNCHANGED <<agentVars, gestureVars, probeVars, lastEvent, modeSwitches, ai_mode, toMaster, on_master_output, show_pty_output,
                   onlcr, readLog, terminalOut, scrollbackFed, counter, exec_pc,
                   exec_cmd, marker, capture_buf, result_future, future_value,
                   observersBefore, execRead, lastResult>>

\* ShellWrapper._enter_ai_mode: the mode flag, as PTY output sees it
AiModeOn ==
    /\ ~ai_mode
    /\ modeSwitches < MaxModeSwitches
    /\ modeSwitches' = modeSwitches + 1
    /\ ai_mode' = TRUE
    /\ UNCHANGED <<agentVars, gestureVars, probeVars, lastEvent, noise, toMaster, on_master_output, show_pty_output, onlcr,
                   shellScript, readLog, terminalOut, scrollbackFed, counter,
                   exec_pc, exec_cmd, marker, capture_buf, result_future, future_value,
                   observersBefore, execRead, lastResult>>

\* ShellWrapper.exit_ai_mode
AiModeOff ==
    /\ ai_mode
    /\ modeSwitches < MaxModeSwitches
    /\ modeSwitches' = modeSwitches + 1
    /\ ai_mode' = FALSE
    /\ UNCHANGED <<agentVars, gestureVars, probeVars, lastEvent, noise, toMaster, on_master_output, show_pty_output, onlcr,
                   shellScript, readLog, terminalOut, scrollbackFed, counter,
                   exec_pc, exec_cmd, marker, capture_buf, result_future, future_value,
                   observersBefore, execRead, lastResult>>

\* The string execute returns when the answer is not "y".
CancelledByUser == "Command execution cancelled by user."

\* execute with the counter incremented before the confirmation is asked for
ExecDeclinedCounting(cmd) ==
    /\ exec_pc = "idle"
    /\ counter < MaxExecs
    /\ counter' = counter + 1
    /\ lastResult' = [kind |-> "declined", text |-> CancelledByUser]
    /\ UNCHANGED <<agentVars, gestureVars, probeVars, lastEvent, ai_mode, toMaster, on_master_output, show_pty_output,
                   onlcr, shellScript, noise, modeSwitches, readLog, terminalOut, scrollbackFed,
                   exec_pc, exec_cmd, marker, capture_buf, result_future,
                   future_value, observersBefore, execRead>>

\* PtyExecutor.execute, the answer to "Execute? [y/N]" is not "y"
ExecDeclined(cmd) ==
    /\ exec_pc = "idle"
    /\ lastResult' = [kind |-> "declined", text |-> CancelledByUser]
    /\ UNCHANGED <<agentVars, gestureVars, probeVars, lastEvent, ai_mode, toMaster, on_master_output, show_pty_output,
                   onlcr, shellScript, noise, modeSwitches, readLog, terminalOut, scrollbackFed,
                   counter, exec_pc, exec_cmd, marker, capture_buf, result_future,
                   future_value, observersBefore, execRead>>

\* PtyExecutor.execute, confirmed: from the marker to the await of wait_for
ExecStart(cmd) ==
    /\ exec_pc = "idle"
    /\ counter < MaxExecs
    /\ counter' = counter + 1
    /\ marker' = counter + 1
    /\ exec_cmd' = cmd
    /\ result_future' = "pending"
    /\ capture_buf' = <<>>
    /\ execRead' = <<>>
    /\ observersBefore' = on_master_output
    /\ on_master_output' = Append(on_master_output, "capture")
    /\ show_pty_output' = TRUE
    /\ toMaster' = Append(toMaster, "cmd")
    /\ shellScript' = shellScript \o ShellScript(counter + 1, cmd)
    /\ exec_pc' = "waiting"
    /\ lastResult' = [kind |-> "none"]
    /\ UNCHANGED <<agentVars, gestureVars, probeVars, lastEvent, noise, modeSwitches, ai_mode, onlcr, readLog, terminalOut,
                   scrollbackFed, future_value>>

\* An executor whose finally block leaves the capture observer registered.
ExecCleanupLeaking ==
    /\ show_pty_output' = FALSE
    /\ on_master_output' = on_master_output
    /\ exec_cmd' = "none" /\ marker' = 0
    /\ capture_buf' = <<>> /\ result_future' = "none"
    /\ future_value' = [output |-> <<>>, exit_code |-> 0]
    /\ observersBefore' = <<>> /\ execRead' = <<>>

\* the finally block of execute; with the return the locals of the call are gone
ExecCleanup ==
    /\ show_pty_output' = FALSE
    /\ on_master_output' = remove_observer(on_master_output, "capture")
    /\ exec_cmd' = "none" /\ marker' = 0
    /\ capture_buf' = <<>> /\ result_future' = "none"
    /\ future_value' = [output |-> <<>>, exit_code |-> 0]
    /\ observersBefore' = <<>> /\ execRead' = <<>>

\* wait_for returns the future's result: return _format_result(output, exit_code)
ExecResolved ==
    /\ exec_pc = "waiting"
    /\ result_future = "done"
    /\ ExecCleanup
    /\ lastResult' = format_result(future_value.output, future_value.exit_code, FALSE)
    /\ exec_pc' = "idle"
    /\ UNCHANGED <<agentVars, gestureVars, probeVars, lastEvent, ai_mode, toMaster, onlcr, shellScript,
                   noise, modeSwitches, readLog, terminalOut, scrollbackFed, counter>>

\* An executor that, on the timeout, does not interrupt the command.
ExecTimeoutWithoutInterrupt ==
    /\ exec_pc = "waiting"
    /\ result_future = "pending"
    /\ result_future' = "cancelled"
    /\ exec_pc' = "grace"
    /\ UNCHANGED <<agentVars, gestureVars, probeVars, lastEvent, ai_mode, toMaster, on_master_output,
                   show_pty_output, onlcr, shellScript, noise, modeSwitches, readLog,
                   terminalOut, scrollbackFed, counter, exec_cmd, marker, capture_buf,
                   future_value, observersBefore, execRead, lastResult>>

\* wait_for times out: the future is cancelled, Ctrl+C is written, the sleep begins
ExecTimeout ==
    /\ exec_pc = "waiting"
    /\ result_future = "pending"
    /\ result_future' = "cancelled"
    /\ toMaster' = Append(toMaster, "^C")
    /\ exec_pc' = "grace"
    /\ UNCHANGED <<agentVars, gestureVars, probeVars, lastEvent, ai_mode, on_master_output, show_pty_output, onlcr,
                   shellScript, noise, modeSwitches, readLog, terminalOut,
                   scrollbackFed, counter, exec_cmd, marker, capture_buf, future_value,
                   observersBefore, execRead, lastResult>>

\* the sleep of 0.2 s ends: the timed-out result is returned
ExecGraceEnd ==
    /\ exec_pc = "grace"
    /\ ExecCleanup
    /\ lastResult' = format_result(extract_output_raw(capture_buf), -1, TRUE)
    /\ exec_pc' = "idle"
    /\ UNCHANGED <<agentVars, gestureVars, probeVars, lastEvent, ai_mode, toMaster, onlcr, shellScript,
                   noise, modeSwitches, readLog, terminalOut, scrollbackFed, counter>>

\* the task is cancelled (or interrupted) at one of the awaits: execute raises
ExecCancelled ==
    /\ exec_pc \in {"waiting", "grace"}
    /\ ExecCleanup
    /\ lastResult' = [kind |-> "raised"]
    /\ exec_pc' = "idle"
    /\ UNCHANGED <<agentVars, gestureVars, probeVars, lastEvent, ai_mode, toMaster, onlcr, shellScript,
                   noise, modeSwitches, readLog, terminalOut, scrollbackFed, counter>>

NextPty ==
    \/ \E k \in 1..Len(shellScript) : MasterReady(k)
    \/ ShellPrints
    \/ AiModeOn
    \/ AiModeOff
    \/ \E cmd \in Commands : ExecDeclined(cmd)
    \/ \E cmd \in Commands : ExecStart(cmd)
    \/ ExecResolved
    \/ ExecTimeout
    \/ ExecGraceEnd
    \/ ExecCancelled

\* The PTY's line discipline is as pty.openpty() leaves it (ONLCR) or as the
\* user set it with stty.
InitPty == GestureInit /\ PtyInit /\ AgentInit /\ onlcr \in BOOLEAN /\ NoMarkerProbe /\ NoScrollProbe /\ NoStore /\ NoFormatProbe /\ NoStreamProbe /\ NoWrapper /\ NoChunkProbe /\ NoPersist

(***************************************************************************)
(* The agent loop (SpecAgent).                                             *)
(***************************************************************************)
\* The top of the while loop: fresh locals, and stream_chat is called with
\* session.get_messages().
IssueRequest(msgs) ==
    /\ content_parts' = <<>>
    /\ tool_calls_by_index' = [i \in ToolIndexes |-> NoCall]
    /\ tool_calls' = <<>> /\ tc_pos' = 0
    /\ requests' = requests + 1
    /\ lastRequest' = msgs
    /\ agent_pc' = "streaming"
    /\ streamed' = NoStream

\* run_agent_loop returns or raises: the turn is over
EndTurn(how) ==
    /\ agent_pc' = "idle"
    /\ outcome' = how
    /\ streamed' = NoStream
    /\ content_parts' = <<>>
    /\ tool_calls_by_index' = [i \in ToolIndexes |-> NoCall]
    /\ tool_calls' = <<>> /\ tc_pos' = 0
    /\ UNCHANGED <<requests, lastRequest, round>>

\* AIMode._run_query: the user's text is added and run_agent_loop is entered
StartTurn ==
    /\ agent_pc = "idle"
    /\ turns < MaxTurns
    /\ turns' = turns + 1
    /\ turnStart' = Len(messages)
    /\ messages' = add_user(messages, <<"u">>)
    /\ outcome' = "none"
    /\ round' = 1
    /\ IssueRequest(add_user(messages, <<"u">>))
    /\ UNCHANGED <<deltas, gestureVars, ptyVars, ai_mode, toMaster, lastEvent>>

\* async for delta in client.stream_chat(...): one delta arrives
RecvDelta(d) ==
    /\ agent_pc = "streaming"
    /\ deltas < MaxDeltas
    /\ deltas' = deltas + 1
    /\ streamed' = stream_more(streamed, d)
    /\ IF d.kind = "content"
       THEN /\ content_parts' = IF d.content # <<>>
                                 THEN Append(content_parts, d.content)
                                 ELSE content_parts
            /\ UNCHANGED tool_calls_by_index
       ELSE /\ tool_calls_by_index' = accumulate_tool_delta(tool_calls_by_index, d)
            /\ UNCHANGED content_parts
    /\ UNCHANGED <<messages, agent_pc, tool_calls, tc_pos, outcome, requests, lastRequest,
                   turnStart, round, turns, gestureVars, ptyVars, ai_mode, toMaster,
                   lastEvent>>

\* The stream ends: the round's text and tool calls are finalized and recorded.
StreamEnd ==
    /\ agent_pc = "streaming"
    /\ LET full_content == Join(content_parts)
           calls == sorted_tool_calls(tool_calls_by_index, ToolIndexes)
       IN  IF calls = <<>>
           THEN /\ messages' = IF full_content # <<>>
                               THEN add_assistant(messages, full_content)
                               ELSE messages
                /\ EndTurn("complete")
           ELSE /\ messages' = add_assistant_tool_calls(messages, full_content, calls)
                /\ tool_calls' = calls
                /\ tc_pos' = 1
                /\ agent_pc' = "tools"
                /\ UNCHANGED <<content_parts, tool_calls_by_index, outcome, requests,
                               lastRequest, round, streamed>>
    /\ UNCHANGED <<turnStart, deltas, turns, gestureVars, ptyVars, ai_mode, toMaster,
                   lastEvent>>

\* An error handling that rolls the user message back after every error
StreamErrorRollingBack(kind) ==
    /\ agent_pc = "streaming"
    /\ messages' = pop_last_user_message(messages)
    /\ EndTurn(IF kind \in {"connect", "timeout", "protocol"} THEN "transport" ELSE kind)
    /\ UNCHANGED <<turnStart, deltas, turns, gestureVars, ptyVars, ai_mode, toMaster,
                   lastEvent>>

\* The stream raises: httpx.ConnectError, TimeoutException, RemoteProtocolError
\* or ReadError (the user message is popped), HTTPStatusError, or another
\* Exception (the loop returns as it is).
StreamErrors == {"connect", "timeout", "protocol", "http", "other"}
TransportErrors == {"connect", "timeout", "protocol"}

StreamError(kind) ==
    /\ agent_pc = "streaming"
    /\ messages' = IF kind \in TransportErrors
                   THEN pop_last_user_message(messages)
                   ELSE messages
    /\ EndTurn(IF kind \in TransportErrors THEN "transport" ELSE kind)
    /\ UNCHANGED <<turnStart, deltas, turns, gestureVars, ptyVars, ai_mode, toMaster,
                   lastEvent>>

\* The turn is interrupted while the stream is awaited.  A KeyboardInterrupt
\* raised in the coroutine is caught by the loop; the cancellation of the task
\* (asyncio.CancelledError, which is how the event loop ends a task, also on
\* SIGINT) is not.
Interrupts == {"KeyboardInterrupt", "CancelledError"}

StreamInterrupt(exc) ==
    /\ agent_pc = "streaming"
    /\ messages' = IF exc = "KeyboardInterrupt" /\ Join(content_parts) # <<>>
                   THEN add_assistant(messages, Join(content_parts))
                   ELSE messages
    /\ EndTurn("cancelled")
    /\ UNCHANGED <<turnStart, deltas, turns, gestureVars, ptyVars, ai_mode, toMaster,
                   lastEvent>>

\* One pass of "for tc in tool_calls": arguments parsed, the call rendered, the
\* tool executed and its result recorded; after the last one the loop goes
\* back to its top.
ToolOutcomes == {"returns", "raises", "interrupted"}

ToolInvoke(how) ==
    /\ agent_pc = "tools"
    /\ LET tc == tool_calls[tc_pos]
           args == fn_args(tc.arguments)
       IN  IF render_tool_call_raises(args)
           THEN /\ messages' = messages
                /\ EndTurn("crashed")
           ELSE IF how = "interrupted"
           THEN /\ messages' = messages
                /\ EndTurn("cancelled")
           ELSE LET msgs == add_tool_result(messages, tc.id,
                                            registry_execute(tc.name, how = "raises"))
                IN  /\ messages' = msgs
                    /\ outcome' = outcome
                    /\ IF tc_pos < Len(tool_calls)
                       THEN /\ tc_pos' = tc_pos + 1
                            /\ UNCHANGED <<agent_pc, content_parts, tool_calls_by_index,
                                           tool_calls, requests, lastRequest, round,
                                           streamed>>
                       ELSE IssueRequest(msgs) /\ round' = round + 1
    /\ UNCHANGED <<turnStart, deltas, turns, gestureVars, ptyVars, ai_mode, toMaster,
                   lastEvent>>

NextAgent ==
    \/ StartTurn
    \/ \E d \in Deltas : RecvDelta(d)
    \/ StreamEnd
    \/ \E kind \in StreamErrors : StreamError(kind)
    \/ \E exc \in Interrupts : StreamInterrupt(exc)
    \/ \E how \in ToolOutcomes : ToolInvoke(how)

InitAgent == GestureInit /\ PtyInit /\ AgentInit /\ onlcr = TRUE /\ NoMarkerProbe /\ NoScrollProbe /\ NoStore /\ NoFormatProbe /\ NoStreamProbe /\ NoWrapper /\ NoChunkProbe /\ NoPersist

vars == <<gestureVars, ptyVars, agentVars, ai_mode, toMaster, lastEvent>>

SpecGesture == InitGesture /\ [][NextGesture]_vars

SpecAiInput == InitGesture /\ [][NextAiInput]_vars

SpecMarker == InitMarker /\ [][NextMarker]_vars

SpecPty == InitPty /\ [][NextPty]_vars

SpecAgent == InitAgent /\ [][NextAgent]_vars


(***************************************************************************)
(* Scrollback compression (scrollback.py).  A line is a sequence of        *)
(* tokens; the blank line is the empty sequence.  "CR" is "\r" and "NL" is *)
(* "\n".                                                                   *)
(***************************************************************************)
\* The end of \s* that starts at position i: the first position that holds no space.
RECURSIVE SkipSpaces(_, _)
SkipSpaces(line, i) ==
    IF i <= Len(line) /\ line[i] = " " THEN SkipSpaces(line, i + 1) ELSE i

\* \d+% found at position i
PercentAt(line, i) ==
    i + 1 <= Len(line) /\ line[i] \in DecChars /\ line[i + 1] = "%"

\* The six _PROGRESS_PATTERNS, searched anywhere in the line.
hash_bar(line) ==
    \E i \in 1..(Len(line) - 1) : line[i] = "[" /\ line[i + 1] = "#"

percent_bar(line) ==
    \E i \in 1..Len(line) :
        /\ PercentAt(line, i)
        /\ LET k == SkipSpaces(line, i + 2)
           IN  k + 1 <= Len(line) /\ line[k] = "|" /\ line[k + 1] \in {"=", "U+25AE", "U+2588"}

rich_bar(line) ==
    \E i \in 1..Len(line) :
        /\ PercentAt(line, i)
        /\ LET k == SkipSpaces(line, i + 2)
           IN  k <= Len(line) /\ line[k] = "U+2501"

word_then_percent(line, word) ==
    \E i \in 1..Len(line) :
        line[i] = word /\ \E j \in (i + 1)..Len(line) : PercentAt(line, j)

\* _is_progress_line
is_progress_line(line) ==
    \/ hash_bar(line)
    \/ percent_bar(line)
    \/ rich_bar(line)
    \/ word_then_percent(line, "Downloading")
    \/ word_then_percent(line, "Uploading")
    \/ word_then_percent(line, "CR")

\* "if count > 2" of the progress collapse.
ProgressLimit == 2
\* "if block_len > 80", the 20 lines kept at each end of a block, and the 40
\* of "block_len - 40".
BlockLimit == 80
BlockKeep == 20
BlockKept == 40

\* f"... ({count - 2} lines of progress output) ..."
progress_marker(n) == <<"... (">> \o Decimal(n) \o <<" lines of progress output) ...">>

\* f"... ({block_len - 40} lines truncated) ..."
truncation_marker(n) == <<"... (">> \o Decimal(n) \o <<" lines truncated) ...">>

\* The inner loop of stage 1, "while j < len(lines) and _is_progress_line(
\* lines[j]): j += 1": the first position from j on that holds no progress
\* line, or the position after the last line.
progress_run_end(lines, j) ==
    LET stops == {e \in j..(Len(lines) + 1) :
                     e = Len(lines) + 1 \/ ~is_progress_line(lines[e])}
    IN  CHOOSE e \in stops : \A f \in stops : e <= f

\* A progress collapse that starts at two lines, "count >= 2"
collapsed_run_from_two(run) ==
    IF Len(run) >= ProgressLimit
    THEN <<run[1], progress_marker(Len(run) - 2), run[Len(run)]>>
    ELSE run

\* A run of progress lines whose marker counts every line of the run
collapsed_run_counting_all(run) ==
    IF Len(run) > ProgressLimit
    THEN <<run[1], progress_marker(Len(run)), run[Len(run)]>>
    ELSE run

\* What stage 1 appends for the run lines[i:j] of progress lines
collapsed_run(run) ==
    IF Len(run) > ProgressLimit
    THEN <<run[1], progress_marker(Len(run) - 2), run[Len(run)]>>
    ELSE run

\* One pass of the outer loop of stage 1, from the position st.i; nothing
\* happens once the loop has ended.
collapse_progress_step(lines, st) ==
    IF st.i > Len(lines) THEN st
    ELSE IF is_progress_line(lines[st.i])
    THEN LET j == progress_run_end(lines, st.i + 1)
         IN  [i |-> j, result |-> st.result \o collapsed_run(SubSeq(lines, st.i, j - 1))]
    ELSE [i |-> st.i + 1, result |-> Append(st.result, lines[st.i])]

\* n passes of the loop; the second half is not needed when the first has
\* reached the end of the list.
RECURSIVE collapse_progress_steps(_, _, _)
collapse_progress_steps(lines, st, n) ==
    IF n = 0 THEN st
    ELSE IF n = 1 THEN collapse_progress_step(lines, st)
    ELSE LET half == collapse_progress_steps(lines, st, n \div 2)
         IN  IF half.i > Len(lines) THEN half
             ELSE collapse_progress_steps(lines, half, n - (n \div 2))

\* Stage 1 of _compress: collapse progress bar runs.  Every pass moves i on,
\* so the loop ends within len(lines) passes.
collapse_progress(lines) ==
    collapse_progress_steps(lines, [i |-> 1, result |-> <<>>], Len(lines)).result

\* The inner loop of stage 2, "while i < len(result) and result[i]: i += 1":
\* the first position from i on that holds a blank line, or the position after
\* the last line.
block_end(result, i) ==
    LET stops == {e \in i..(Len(result) + 1) : e = Len(result) + 1 \/ result[e] = <<>>}
    IN  CHOOSE e \in stops : \A f \in stops : e <= f

\* A block cut to its first lines and the marker, without its last lines
truncated_block_head_only(block) ==
    IF Len(block) > BlockLimit
    THEN SubSeq(block, 1, BlockKeep) \o <<truncation_marker(Len(block) - BlockKept)>>
    ELSE block

\* What stage 2 appends for the block result[block_start:i] of non-blank lines
truncated_block(block) ==
    IF Len(block) > BlockLimit
    THEN SubSeq(block, 1, BlockKeep)
         \o <<truncation_marker(Len(block) - BlockKept)>>
         \o SubSeq(block, Len(block) - BlockKeep + 1, Len(block))
    ELSE block

\* One pass of the outer loop of stage 2, from the position st.i.
truncate_blocks_step(result, st) ==
    IF st.i > Len(result) THEN st
    ELSE IF result[st.i] # <<>>
    THEN LET e == block_end(result, st.i)
         IN  [i |-> e,
              compressed |-> st.compressed \o truncated_block(SubSeq(result, st.i, e - 1))]
    ELSE [i |-> st.i + 1, compressed |-> Append(st.compressed, result[st.i])]

RECURSIVE truncate_blocks_steps(_, _, _)
truncate_blocks_steps(result, st, n) ==
    IF n = 0 THEN st
    ELSE IF n = 1 THEN truncate_blocks_step(result, st)
    ELSE LET half == truncate_blocks_steps(result, st, n \div 2)
         IN  IF half.i > Len(result) THEN half
             ELSE truncate_blocks_steps(result, half, n - (n \div 2))

\* Stage 2 of _compress: truncate large output blocks.
truncate_blocks(result) ==
    truncate_blocks_steps(result, [i |-> 1, compressed |-> <<>>], Len(result)).compressed

\* A pass over a line that drops it when it comes after a blank one
dedup_step_dropping_after_blank(compressed, st) ==
    IF st.i > Len(compressed) THEN st
    ELSE LET line == compressed[st.i]
         IN  [i |-> st.i + 1,
              final |-> IF st.prev_blank THEN st.final ELSE Append(st.final, line),
              prev_blank |-> line = <<>>]

\* One pass of the loop of stage 3, over the line at the position st.i
dedup_step(compressed, st) ==
    IF st.i > Len(compressed) THEN st
    ELSE LET line == compressed[st.i]
         IN  IF line = <<>>
             THEN [i |-> st.i + 1,
                   final |-> IF st.prev_blank THEN st.final ELSE Append(st.final, line),
                   prev_blank |-> TRUE]
             ELSE [i |-> st.i + 1, final |-> Append(st.final, line), prev_blank |-> FALSE]

RECURSIVE dedup_steps(_, _, _)
dedup_steps(compressed, st, n) ==
    IF n = 0 THEN st
    ELSE IF n = 1 THEN dedup_step(compressed, st)
    ELSE LET half == dedup_steps(compressed, st, n \div 2)
         IN  IF half.i > Len(compressed) THEN half
             ELSE dedup_steps(compressed, half, n - (n \div 2))

\* Stage 3 of _compress: dedup blank line runs.
dedup_blank_runs(compressed) ==
    dedup_steps(compressed, [i |-> 1, final |-> <<>>, prev_blank |-> FALSE],
                Len(compressed)).final

\* _compress, with the lists its three stages build
compress_stages(lines) ==
    LET result == collapse_progress(lines)
        compressed == truncate_blocks(result)
    IN  [result |-> result, compressed |-> compressed,
         final |-> dedup_blank_runs(compressed)]

compress(lines) == compress_stages(lines).final

\* "while lines and not lines[-1]: lines.pop()"
RECURSIVE trim_trailing_empty(_)
trim_trailing_empty(lines) ==
    IF lines # <<>> /\ lines[Len(lines)] = <<>>
    THEN trim_trailing_empty(SubSeq(lines, 1, Len(lines) - 1)) ELSE lines

\* lines[start:] of a Python list: a negative start counts from the end, and
\* -0 is 0
slice_from(lines, start) ==
    LET n == Len(lines)
        s == IF start < 0 THEN (IF n + start < 0 THEN 0 ELSE n + start)
             ELSE (IF start > n THEN n ELSE start)
    IN  SubSeq(lines, s + 1, n)

\* "\n".join(lines)
RECURSIVE join_lines(_)
join_lines(lines) ==
    IF lines = <<>> THEN <<>>
    ELSE IF Len(lines) = 1 THEN lines[1]
    ELSE LET half == Len(lines) \div 2
         IN  join_lines(SubSeq(lines, 1, half)) \o <<"NL">>
             \o join_lines(SubSeq(lines, half + 1, Len(lines)))

\* str.strip() of a text of these tokens
TextWhitespace == {" ", "NL", "CR"}

RECURSIVE text_strip(_)
text_strip(t) ==
    IF t = <<>> THEN <<>>
    ELSE IF Head(t) \in TextWhitespace THEN text_strip(Tail(t))
    ELSE IF t[Len(t)] \in TextWhitespace THEN text_strip(SubSeq(t, 1, Len(t) - 1))
    ELSE t

\* The value None and a text
NoContext == [none |-> TRUE, text |-> <<>>]
ContextText(t) == [none |-> FALSE, text |-> t]

\* ScrollbackCapture.get_context, from the lines of the history and the screen
get_context(all_lines, max_lines) ==
    LET lines == trim_trailing_empty(all_lines)
    IN  IF lines = <<>> THEN NoContext
        ELSE LET c == compress(lines)
                 capped == IF Len(c) > max_lines THEN slice_from(c, 0 - max_lines) ELSE c
                 text == text_strip(join_lines(capped))
             IN  IF text # <<>> THEN ContextText(text) ELSE NoContext

\* The scrollbacks looked at: up to MaxSegments stretches of lines of one kind,
\* of lengths around the limits of the stages.  A line of a numbered kind
\* carries its position in the scrollback; lines have no trailing space, as
\* _history_lines and _screen_lines strip it.
MaxSegments == 3

SegmentChoices ==
    [kind : {"blank"}, len : {1, 2}]
    \cup [kind : {"same"}, len : {1, 80, 100}]
    \cup [kind : {"numbered"}, len : {2, 41}]
    \cup [kind : {"indented"}, len : {1}]
    \cup [kind : {"progress"}, len : {1, 3, 82}]
    \cup [kind : {"bar", "word"}, len : {3}]
    \cup [kind : {"patterns"}, len : {4}]

line_of(kind, k) ==
    CASE kind = "blank" -> <<>>
      [] kind = "same" -> <<"ok">>
      [] kind = "numbered" -> <<"out">> \o Decimal(k)
      [] kind = "indented" -> <<" ", "out">> \o Decimal(k)
      [] kind = "progress" -> <<"Downloading", " ">> \o Decimal(k) \o <<"%">>
      [] kind = "bar" -> <<"[", "#", "#">>
      [] kind = "word" -> <<"Downloading", " ", "done">>
      [] kind = "patterns" ->
            CASE k % 4 = 0 -> Decimal(k) \o <<"%", " ", "|", "=">>
              [] k % 4 = 1 -> Decimal(k) \o <<"%", "U+2501">>
              [] k % 4 = 2 -> <<"Uploading", " ">> \o Decimal(k) \o <<"%">>
              [] k % 4 = 3 -> <<"CR">> \o Decimal(k) \o <<"%">>

RECURSIVE lines_of(_, _)
lines_of(segments, before) ==
    IF segments = <<>> THEN <<>>
    ELSE LET sg == Head(segments)
         IN  [k \in 1..sg.len |-> line_of(sg.kind, before + k)]
             \o lines_of(Tail(segments), before + sg.len)

Scrollbacks == {lines_of(sgs, 0) : sgs \in SeqsUpTo(SegmentChoices, MaxSegments)}

\* The line limits get_context is called with: --context-lines takes any integer.
MaxLinesValues == {-1, 0, 1, 2, 50}

ScrollInit == \E lines \in Scrollbacks : scrollProbe = [pc |-> "input", lines |-> lines]

\* _compress(lines) is called.
CompressCalled ==
    /\ scrollProbe.pc = "input"
    /\ LET st == compress_stages(scrollProbe.lines)
       IN  scrollProbe' = [pc |-> "compressed", lines |-> scrollProbe.lines,
                           result |-> st.result, compressed |-> st.compressed,
                           final |-> compress(scrollProbe.lines)]
    /\ UNCHANGED <<programVars, markerProbe, store, formatProbe, streamProbe, wrapper, chunkProbe, persist>>

\* get_context(max_lines) is called when the history and the screen hold the lines.
GetContextCalled(max_lines) ==
    /\ scrollProbe.pc = "input"
    /\ scrollProbe' = [pc |-> "context", lines |-> scrollProbe.lines,
                       max_lines |-> max_lines,
                       context |-> get_context(scrollProbe.lines, max_lines)]
    /\ UNCHANGED <<programVars, markerProbe, store, formatProbe, streamProbe, wrapper, chunkProbe, persist>>

NextScrollback ==
    \/ CompressCalled
    \/ \E m \in MaxLinesValues : GetContextCalled(m)

InitScrollback == GestureInit /\ PtyInit /\ AgentInit /\ onlcr = TRUE /\ NoMarkerProbe /\ ScrollInit /\ NoStore /\ NoFormatProbe /\ NoStreamProbe /\ NoWrapper /\ NoChunkProbe /\ NoPersist

SpecScrollback == InitScrollback /\ [][NextScrollback]_vars

(***************************************************************************)
(* Persistence (storage.py).  A conversation record is a dict with the key *)
(* role and, each optional, content, tool_calls and tool_call_id; a key    *)
(* that is missing holds Absent here.  Texts are sequences of tokens, and  *)
(* the tokens "\"" and "\\" are the quote and the backslash.  The columns  *)
(* created_at and updated_at hold clock values that load_session does not  *)
(* read; they are left out.                                                *)
(***************************************************************************)
\* Python's None and SQL's NULL.
None == <<"None">>

Record(role, content, has_tool_calls, calls, call_id) ==
    [role |-> role, content |-> content, has_tool_calls |-> has_tool_calls,
     tool_calls |-> calls, tool_call_id |-> call_id]

\* msg.get(key)
dict_get(v) == IF v = Absent THEN None ELSE v

\* The body of a JSON string: quote and backslash are escaped.
RECURSIVE json_escape(_)
json_escape(t) ==
    IF t = <<>> THEN <<>>
    ELSE (IF Head(t) \in {"\"", "\\"} THEN <<"\\", Head(t)>> ELSE <<Head(t)>>)
         \o json_escape(Tail(t))

json_string(t) == <<"\"">> \o json_escape(t) \o <<"\"">>

\* json.dumps of one tool call:
\* {"id": ..., "type": "function", "function": {"name": ..., "arguments": ...}}
call_json(c) ==
    <<"{">> \o json_string(<<"id">>) \o <<":">> \o json_string(<<c.id>>)
    \o <<",">> \o json_string(<<"type">>) \o <<":">> \o json_string(<<"function">>)
    \o <<",">> \o json_string(<<"function">>) \o <<":", "{">>
    \o json_string(<<"name">>) \o <<":">> \o json_string(c.name)
    \o <<",">> \o json_string(<<"arguments">>) \o <<":">> \o json_string(c.arguments)
    \o <<"}", "}">>

RECURSIVE calls_json(_)
calls_json(calls) ==
    IF calls = <<>> THEN <<>>
    ELSE IF Len(calls) = 1 THEN call_json(calls[1])
    ELSE call_json(calls[1]) \o <<",">> \o calls_json(Tail(calls))

\* json.dumps(msg["tool_calls"])
json_dumps(calls) == <<"[">> \o calls_json(calls) \o <<"]">>

\* The JSON string that starts with the quote at position i - 1: its text and
\* the position after its closing quote.
RECURSIVE scan_string(_, _, _)
scan_string(toks, j, acc) ==
    IF toks[j] = "\"" THEN [text |-> acc, next |-> j + 1]
    ELSE IF toks[j] = "\\" THEN scan_string(toks, j + 2, Append(acc, toks[j + 1]))
    ELSE scan_string(toks, j + 1, Append(acc, toks[j]))

parse_string(toks, i) == scan_string(toks, i + 1, <<>>)

\* The value of the member of an object whose key starts at position i: key,
\* colon and a string.
parse_member(toks, i) ==
    LET key == parse_string(toks, i)
        val == parse_string(toks, key.next + 1)
    IN  [key |-> key.text, text |-> val.text, next |-> val.next]

\* json.loads of one tool call that starts with "{" at position i.
parse_call(toks, i) ==
    LET id == parse_member(toks, i + 1)
        type == parse_member(toks, id.next + 1)
        function == parse_string(toks, type.next + 1)
        name == parse_member(toks, function.next + 2)
        arguments == parse_member(toks, name.next + 1)
    IN  [call |-> [id |-> id.text[1], name |-> name.text, arguments |-> arguments.text],
         next |-> arguments.next + 2]

RECURSIVE parse_calls(_, _, _)
parse_calls(toks, i, acc) ==
    IF toks[i] = "]" THEN acc
    ELSE IF toks[i] = "," THEN parse_calls(toks, i + 1, acc)
    ELSE LET c == parse_call(toks, i)
         IN  parse_calls(toks, c.next, Append(acc, c.call))

\* json.loads(row["tool_calls"])
json_loads(toks) == parse_calls(toks, 2, <<>>)

\* The row save_messages builds for a message.
row_of(session_id, msg, id) ==
    [id |-> id, session_id |-> session_id, role |-> msg.role,
     content |-> dict_get(msg.content),
     tool_calls |-> IF msg.has_tool_calls THEN json_dumps(msg.tool_calls) ELSE None,
     tool_call_id |-> dict_get(msg.tool_call_id)]

\* content[:80] of the title candidate.
TitleLen == 80

\* The title candidate of save_messages: the content of the first user
\* message among the new ones whose content is not empty; None without one.
RECURSIVE title_candidate(_)
title_candidate(new_messages) ==
    IF new_messages = <<>> THEN None
    ELSE LET msg == Head(new_messages)
         IN  IF msg.role = "user" /\ msg.content \notin {Absent, <<>>}
             THEN SubSeq(msg.content, 1,
                         IF Len(msg.content) < TitleLen THEN Len(msg.content) ELSE TitleLen)
             ELSE title_candidate(Tail(new_messages))

\* Storage.save_messages on the database db: the rows of messages[from_index:]
\* get the next ids of the AUTOINCREMENT key, and the session gets a title
\* when it has none (COALESCE).
save_messages(db, session_id, msgs, from_index) ==
    LET new_messages == SubSeq(msgs, from_index + 1, Len(msgs))
        last_id == Cardinality(db.messages)
        candidate == title_candidate(new_messages)
    IN  IF new_messages = <<>> THEN db
        ELSE [messages |-> db.messages \cup
                  {row_of(session_id, new_messages[k], last_id + k) :
                       k \in 1..Len(new_messages)},
              titles |-> IF candidate # None /\ db.titles[session_id] = None
                         THEN [db.titles EXCEPT ![session_id] = candidate]
                         ELSE db.titles]

\* A load that leaves out a key whose column is empty
load_row_truthy(row) ==
    Record(row.role,
           IF row.content \notin {None, <<>>} THEN row.content ELSE Absent,
           row.tool_calls # None,
           IF row.tool_calls # None THEN json_loads(row.tool_calls) ELSE <<>>,
           IF row.tool_call_id # None THEN row.tool_call_id ELSE Absent)

\* The dict load_session builds for a row
load_row(row) ==
    Record(row.role,
           IF row.content # None THEN row.content ELSE Absent,
           row.tool_calls # None,
           IF row.tool_calls # None THEN json_loads(row.tool_calls) ELSE <<>>,
           IF row.tool_call_id # None THEN row.tool_call_id ELSE Absent)

\* SELECT ... ORDER BY id
RECURSIVE order_by_id(_)
order_by_id(rows) ==
    IF rows = {} THEN <<>>
    ELSE LET first == CHOOSE r \in rows : \A q \in rows : r.id <= q.id
         IN  <<first>> \o order_by_id(rows \ {first})

RECURSIVE load_rows(_)
load_rows(rows) ==
    IF rows = <<>> THEN <<>> ELSE <<load_row(Head(rows))>> \o load_rows(Tail(rows))

\* Storage.load_session
load_session(db, session_id) ==
    load_rows(order_by_id({r \in db.messages : r.session_id = session_id}))

\* The session of this process and the session of another process that uses
\* the same database file.
SessionIds == {"this", "other"}

\* Messages appended to the session after the system prompt, and rows another
\* session writes, in one behaviour.
MaxStored == 3
MaxOtherRows == 1

CallA == [id |-> "id_a", name |-> BashName, arguments |-> <<"{", "\"", "c", "\"", "}">>]
CallB == [id |-> "call_1", name |-> <<"a\\b">>, arguments |-> <<"\\", "\"">>]

\* The records a session is made of: what add_user, add_assistant,
\* add_assistant_tool_calls and add_tool_result append.
ConversationRecords ==
    {Record("user", <<"a">>, FALSE, <<>>, Absent),
     Record("user", <<"\"", "b", "\\">>, FALSE, <<>>, Absent),
     Record("assistant", <<>>, FALSE, <<>>, Absent),
     Record("assistant", Absent, TRUE, <<CallA>>, Absent),
     Record("assistant", <<"a">>, TRUE, <<CallA, CallB>>, Absent),
     Record("tool", <<"a">>, FALSE, <<>>, <<"id_a">>)}

SystemRecord == Record("system", <<"sys">>, FALSE, <<>>, Absent)

EmptyDb == [messages |-> {}, titles |-> [s \in SessionIds |-> None]]

\* cli._run_shell for a new session: the session holds the system prompt,
\* which is saved from index 0, and AIMode starts with _save_index =
\* len(session.messages).
StoreInit ==
    store = [pc |-> "open", messages |-> <<SystemRecord>>, save_index |-> 1,
             db |-> save_messages(EmptyDb, "this", <<SystemRecord>>, 0),
             others |-> 0, loaded |-> <<>>]

\* A message is appended to the session (Session.add_*).
SessionGrows(rec) ==
    /\ store.pc \in {"open", "loaded"}
    /\ Len(store.messages) <= MaxStored
    /\ store' = [store EXCEPT !.pc = "open", !.loaded = <<>>,
                              !.messages = Append(@, rec)]
    /\ UNCHANGED <<programVars, markerProbe, scrollProbe, formatProbe, streamProbe, wrapper, chunkProbe, persist>>

\* _run_query after the agent loop: save_messages from _save_index, and
\* _save_index = len(messages).
SaveMessages ==
    /\ store.pc \in {"open", "loaded"}
    /\ store' = [store EXCEPT !.pc = "open", !.loaded = <<>>,
                              !.db = save_messages(@, "this", store.messages,
                                                   store.save_index),
                              !.save_index = Len(store.messages)]
    /\ UNCHANGED <<programVars, markerProbe, scrollProbe, formatProbe, streamProbe, wrapper, chunkProbe, persist>>

\* Another session saves a message into the same database.
OtherSessionSaves(rec) ==
    /\ store.pc \in {"open", "loaded"}
    /\ store.others < MaxOtherRows
    /\ store' = [store EXCEPT !.pc = "open", !.loaded = <<>>,
                              !.db = save_messages(@, "other", <<rec>>, 0),
                              !.others = @ + 1]
    /\ UNCHANGED <<programVars, markerProbe, scrollProbe, formatProbe, streamProbe, wrapper, chunkProbe, persist>>

\* load_session(session_id) of this session (llaminal --resume).
LoadSession ==
    /\ store.pc = "open"
    /\ store' = [store EXCEPT !.pc = "loaded",
                              !.loaded = load_session(store.db, "this")]
    /\ UNCHANGED <<programVars, markerProbe, scrollProbe, formatProbe, streamProbe, wrapper, chunkProbe, persist>>

NextStore ==
    \/ \E rec \in ConversationRecords : SessionGrows(rec)
    \/ SaveMessages
    \/ \E rec \in ConversationRecords : OtherSessionSaves(rec)
    \/ LoadSession

InitStore == GestureInit /\ PtyInit /\ AgentInit /\ onlcr = TRUE /\ NoMarkerProbe /\ NoScrollProbe /\ StoreInit /\ NoFormatProbe /\ NoStreamProbe /\ NoWrapper /\ NoChunkProbe /\ NoPersist

SpecStore == InitStore /\ [][NextStore]_vars

(***************************************************************************)
(* The cap of the command output (pty_executor._format_result).  A          *)
(* character of the output is a token.                                     *)
(***************************************************************************)
\* The lengths of the outputs looked at, around OutputKeep and OutputCap.
OutputLengths == {0, 1, 2, 5000, 5001, 9999, 10000, 10001, 10002, 15000, 20001}

\* The character at position k of an output of a kind.
output_char(kind, k) ==
    CASE kind = "same" -> "x"
      [] kind = "hex" -> HexChars[(k % 16) + 1]
      [] kind = "lines" -> IF k % 16 = 0 THEN "LF" ELSE HexChars[(k % 7) + 1]

FormatInit ==
    \E n \in OutputLengths, kind \in {"same", "hex", "lines"},
       exit_code \in {0, 1}, timed_out \in BOOLEAN :
        formatProbe = [pc |-> "input", output |-> [k \in 1..n |-> output_char(kind, k)],
                       exit_code |-> IF timed_out THEN -1 ELSE exit_code,
                       timed_out |-> timed_out]

\* execute returns _format_result(output, exit_code), or, after the timeout,
\* _format_result(output, -1, timed_out=True, ...).
FormatResultCalled ==
    /\ formatProbe.pc = "input"
    /\ formatProbe' = [pc |-> "formatted", output |-> formatProbe.output,
                       exit_code |-> formatProbe.exit_code,
                       timed_out |-> formatProbe.timed_out,
                       result |-> format_result(formatProbe.output,
                                                formatProbe.exit_code,
                                                formatProbe.timed_out)]
    /\ UNCHANGED <<programVars, markerProbe, scrollProbe, store, streamProbe, wrapper, chunkProbe, persist>>

NextFormat == FormatResultCalled

InitFormat == GestureInit /\ PtyInit /\ AgentInit /\ onlcr = TRUE /\ NoMarkerProbe /\ NoScrollProbe /\ NoStore /\ FormatInit /\ NoStreamProbe /\ NoWrapper /\ NoChunkProbe /\ NoPersist

SpecFormat == InitFormat /\ [][NextFormat]_vars

(***************************************************************************)
(* Terminal input at the AI prompt (SpecAiQuery): the behaviours start     *)
(* where ESC ESC was read and the shortcut timer has expired, so that AI   *)
(* mode is active with an empty line.                                      *)
(***************************************************************************)
\* Reads of the terminal input in one behaviour of SpecAiQuery, the read of
\* ESC ESC included.
MaxQueryStdinReads == 3
\* Bytes of one read of the terminal input in SpecAiQuery.
MaxQueryChunkLen == 4

QueryStdinChunks == SeqsUpTo(AiStdinBytes, MaxQueryChunkLen) \ {<<>>}

\* The state of ShellWrapper and AIMode after construction.
ConstructedGesture ==
    [esc_pending |-> FALSE, double_esc_pending |-> FALSE,
     esc_timer |-> FALSE, shortcut_timer |-> FALSE,
     ai_mode |-> FALSE, ai_active |-> FALSE, ai_buffer |-> <<>>, ai_cursor_pos |-> 0,
     running_agent |-> FALSE, pty_executing |-> FALSE, queryTasks |-> <<>>,
     toMaster |-> <<>>, aiEnters |-> 0, fixCalls |-> 0, explainCalls |-> 0]

\* The state after _on_stdin_ready has read ESC ESC and _shortcut_timeout_fired
\* has entered AI mode.
AtAiPrompt == shortcut_timeout_fired(on_stdin_ready(ConstructedGesture, <<ESC, ESC>>))

AiPromptInit ==
    /\ esc_pending = AtAiPrompt.esc_pending
    /\ double_esc_pending = AtAiPrompt.double_esc_pending
    /\ esc_timer = AtAiPrompt.esc_timer
    /\ shortcut_timer = AtAiPrompt.shortcut_timer
    /\ ai_mode = AtAiPrompt.ai_mode
    /\ ai_active = AtAiPrompt.ai_active
    /\ ai_buffer = AtAiPrompt.ai_buffer
    /\ ai_cursor_pos = AtAiPrompt.ai_cursor_pos
    /\ running_agent = AtAiPrompt.running_agent
    /\ pty_executing = AtAiPrompt.pty_executing
    /\ queryTasks = AtAiPrompt.queryTasks
    /\ toMaster = AtAiPrompt.toMaster
    /\ aiEnters = AtAiPrompt.aiEnters
    /\ fixCalls = AtAiPrompt.fixCalls
    /\ explainCalls = AtAiPrompt.explainCalls
    /\ stdinReads = 1
    /\ lastEvent = [kind |-> "shortcut_timeout"]

\* Terminal input after AI mode was entered.
QueryStdinReady(data) ==
    /\ stdinReads < MaxQueryStdinReads
    /\ StdinReady(data)

NextAiQuery ==
    \/ \E data \in QueryStdinChunks : QueryStdinReady(data)
    \/ EscTimeoutFired
    \/ ShortcutTimeoutFired
    \/ \E t \in TaskIds : QueryTaskStarts(t)
    \/ \E t \in TaskIds : QueryToolBegins(t)
    \/ \E t \in TaskIds : QueryToolEnds(t)
    \/ \E t \in TaskIds : QueryTaskEnds(t)

InitAiQuery == AiPromptInit /\ PtyInit /\ AgentInit /\ onlcr = TRUE /\ NoMarkerProbe /\ NoScrollProbe /\ NoStore /\ NoFormatProbe /\ NoStreamProbe /\ NoWrapper /\ NoChunkProbe /\ NoPersist

SpecAiQuery == InitAiQuery /\ [][NextAiQuery]_vars

(***************************************************************************)
(* The life cycle of the session (ShellWrapper.spawn, run, cleanup and     *)
(* the query of AIMode that switches the terminal).  The terminal is in    *)
(* the mode "saved" (the mode found at spawn, a cooked mode) or "raw";     *)
(* the child is "alive", "exited" (not yet waited for) or "reaped".        *)
(***************************************************************************)
\* The descriptor pty.openpty() returned and the pid os.fork() returned.
MasterFd == 3
ChildPid == 100
\* Calls of cleanup(), writes to the shell and queries in one behaviour.
MaxCleanups == 2
MaxWrites == 1
MaxQueries == 1

Signals == {"SIGWINCH", "SIGCHLD"}
ReadOutcomes == {"data", "eof", "error"}

Event(kind, how) == [kind |-> kind, outcome |-> how]

\* After __init__ and spawn(): the descriptor and the pid are kept, the mode
\* of the terminal is saved and the terminal is raw.
WrapperInit ==
    wrapper = [pc |-> "spawned", running |-> FALSE,
               master_fd |-> MasterFd, child_pid |-> ChildPid,
               original_termios |-> "saved", mode |-> "raw",
               readers |-> {}, handlers |-> [s \in Signals |-> "previous"],
               child |-> "alive", sigchld |-> FALSE, fd_open |-> TRUE,
               query |-> "none", queries |-> 0, ended |-> FALSE,
               cleanups |-> 0, writes |-> 0, last |-> Event("spawn", "-")]

\* os.waitpid(pid, os.WNOHANG) on the child: its pid when it has exited, 0
\* when it is alive, ChildProcessError when it was waited for before.
waitpid_nohang(w) ==
    IF w.child = "exited" THEN "pid" ELSE IF w.child = "alive" THEN "0" ELSE "ChildProcessError"

\* The child after that call.
after_waitpid(w) == IF w.child = "exited" THEN "reaped" ELSE w.child

\* _handle_sigchld
handle_sigchld(w) ==
    LET res == waitpid_nohang(w)
    IN  [w EXCEPT !.child = after_waitpid(w),
                  !.running = IF res \in {"pid", "ChildProcessError"} THEN FALSE ELSE @,
                  !.ended = @ \/ res \in {"pid", "ChildProcessError"}]

\* _on_stdin_ready up to the test of the data: an OSError returns, no data
\* clears the running flag
stdin_read(w, how) ==
    IF how = "eof" THEN [w EXCEPT !.running = FALSE, !.ended = TRUE] ELSE w

\* _on_master_ready that returns on an OSError as _on_stdin_ready does
on_master_read_ignoring_errors(w, how) ==
    IF how = "eof" THEN [w EXCEPT !.running = FALSE, !.ended = TRUE]
    ELSE [w EXCEPT !.ended = @ \/ how = "error"]

\* _on_master_ready up to the test of the data: an OSError and no data both
\* clear the running flag
on_master_read(w, how) ==
    IF how \in {"eof", "error"} THEN [w EXCEPT !.running = FALSE, !.ended = TRUE] ELSE w

\* The finally of run()
run_finally(w) ==
    [w EXCEPT !.readers = {}, !.handlers = [s \in Signals |-> "previous"],
              !.pc = "returned"]

\* cleanup()
cleanup(w) ==
    [w EXCEPT !.mode = IF w.original_termios # "None" THEN "saved" ELSE @,
              !.original_termios = "None",
              !.fd_open = IF w.master_fd >= 0 THEN FALSE ELSE @,
              !.master_fd = -1,
              !.child = IF w.child_pid > 0 THEN after_waitpid(w) ELSE @,
              !.child_pid = -1]

\* _write_to_master: the number of os.write calls made
write_to_shell(w) ==
    IF w.master_fd >= 0 THEN [w EXCEPT !.writes = @ + 1] ELSE w

\* AIMode._shell_to_cooked
shell_to_cooked(w) ==
    [w EXCEPT !.mode = IF w.original_termios # "None" THEN "saved" ELSE @]

\* AIMode._shell_to_raw
shell_to_raw(w) == [w EXCEPT !.mode = "raw"]

WrapperFrame == UNCHANGED <<programVars, markerProbe, scrollProbe, store, formatProbe, streamProbe, chunkProbe, persist>>

\* run() up to its loop: the flag is set, the handlers are installed and the
\* readers are added.
RunStarts ==
    /\ wrapper.pc = "spawned"
    /\ wrapper' = [wrapper EXCEPT !.pc = "loop", !.running = TRUE,
                                  !.handlers = [s \in Signals |-> "wrapper"],
                                  !.readers = {"stdin", "master"},
                                  !.last = Event("run", "-")]
    /\ WrapperFrame

\* The shell exits.  SIGCHLD is raised; with the previous handler in place
\* nothing in the wrapper runs for it.
ChildExits ==
    /\ wrapper.pc # "none"
    /\ wrapper.child = "alive"
    /\ wrapper' = [wrapper EXCEPT !.child = "exited",
                                  !.sigchld = @ \/ wrapper.handlers["SIGCHLD"] = "wrapper",
                                  !.last = Event("child_exits", "-")]
    /\ WrapperFrame

\* SIGCHLD is raised for another reason (the shell was stopped or continued,
\* or another child of the process ended).
OtherSigchld ==
    /\ wrapper.pc = "loop"
    /\ wrapper.child = "alive"
    /\ ~wrapper.sigchld
    /\ wrapper' = [wrapper EXCEPT !.sigchld = TRUE, !.last = Event("sigchld", "-")]
    /\ WrapperFrame

\* The interpreter runs _handle_sigchld.
SigchldHandled ==
    /\ wrapper.pc = "loop"
    /\ wrapper.sigchld
    /\ wrapper.handlers["SIGCHLD"] = "wrapper"
    /\ wrapper' = [handle_sigchld(wrapper) EXCEPT
                       !.sigchld = FALSE,
                       !.last = Event("handle_sigchld", waitpid_nohang(wrapper))]
    /\ WrapperFrame

\* The event loop calls _on_stdin_ready.
StdinRead(how) ==
    /\ wrapper.pc = "loop"
    /\ "stdin" \in wrapper.readers
    /\ wrapper' = [stdin_read(wrapper, how) EXCEPT !.last = Event("stdin", how)]
    /\ WrapperFrame

\* The event loop calls _on_master_ready.
MasterRead(how) ==
    /\ wrapper.pc = "loop"
    /\ "master" \in wrapper.readers
    /\ wrapper' = [on_master_read(wrapper, how) EXCEPT !.last = Event("master", how)]
    /\ WrapperFrame

\* "while self._running" finds the flag cleared: run() leaves through its
\* finally.
LoopEnds ==
    /\ wrapper.pc = "loop"
    /\ ~wrapper.running
    /\ wrapper' = [run_finally(wrapper) EXCEPT !.last = Event("run_returns", "-")]
    /\ WrapperFrame

\* An interrupt cancels run() at its sleep while a query has the terminal in
\* the saved mode, where Ctrl+C raises SIGINT: run() leaves through its
\* finally.
RunCancelled ==
    /\ wrapper.pc = "loop"
    /\ wrapper.query = "running"
    /\ wrapper' = [run_finally(wrapper) EXCEPT !.last = Event("run_cancelled", "-")]
    /\ WrapperFrame

\* The finally of cli._run_shell, or a later call: cleanup().
Cleanup ==
    /\ wrapper.pc \in {"returned", "cleaned"}
    /\ wrapper.cleanups < MaxCleanups
    /\ wrapper' = [cleanup(wrapper) EXCEPT !.pc = "cleaned", !.cleanups = @ + 1,
                                           !.last = Event("cleanup", IF wrapper.child_pid > 0
                                                                     THEN waitpid_nohang(wrapper)
                                                                     ELSE "-")]
    /\ WrapperFrame

\* write_to_shell(data) is called.
WriteToShell ==
    /\ wrapper.pc # "none"
    /\ wrapper.writes < MaxWrites \/ wrapper.master_fd < 0
    /\ wrapper.last.kind # "write"
    /\ wrapper' = [write_to_shell(wrapper) EXCEPT !.last = Event("write", "-")]
    /\ WrapperFrame

\* AIMode._run_query starts: the terminal is switched to the saved mode.
QueryStarts ==
    /\ wrapper.pc = "loop"
    /\ wrapper.query # "running"
    /\ wrapper.queries < MaxQueries
    /\ wrapper' = [shell_to_cooked(wrapper) EXCEPT !.query = "running", !.queries = @ + 1,
                                                   !.last = Event("query_starts", "-")]
    /\ WrapperFrame

\* The finally of _run_query: the terminal is switched to raw.  The task ends
\* by itself or is cancelled by asyncio.run after _run_shell has returned.
QueryEnds ==
    /\ wrapper.pc # "none"
    /\ wrapper.query = "running"
    /\ wrapper' = [shell_to_raw(wrapper) EXCEPT !.query = "done",
                                                !.last = Event("query_ends", "-")]
    /\ WrapperFrame

NextSession ==
    \/ RunStarts
    \/ ChildExits
    \/ OtherSigchld
    \/ SigchldHandled
    \/ \E how \in ReadOutcomes : StdinRead(how)
    \/ \E how \in ReadOutcomes : MasterRead(how)
    \/ LoopEnds
    \/ RunCancelled
    \/ Cleanup
    \/ WriteToShell
    \/ QueryStarts
    \/ QueryEnds

InitSession == GestureInit /\ PtyInit /\ AgentInit /\ onlcr = TRUE /\ NoMarkerProbe /\ NoScrollProbe /\ NoStore /\ NoFormatProbe /\ NoStreamProbe /\ WrapperInit /\ NoChunkProbe /\ NoPersist

SpecSession == InitSession /\ [][NextSession]_vars

\* The event loop wakes the sleep of run() every 0.1 s, the interpreter runs
\* the handler of a pending signal, and a query task comes to its end.
SpecSessionFair ==
    SpecSession /\ WF_vars(LoopEnds) /\ WF_vars(SigchldHandled) /\ WF_vars(QueryEnds)

(***************************************************************************)
(* The stream of one model request (client.stream_chat).  A line of the    *)
(* response body is a sequence of tokens; "data:" is the prefix of a data  *)
(* line, " " is white space, and the tokens of a JSON payload are "{",     *)
(* "}", "[", "]", "choices", "null" and the choices "a" and "b".  A line   *)
(* carries the kind it was written as, which the client does not see.      *)
(***************************************************************************)
Line(kind, text) == [kind |-> kind, text |-> text]

StreamLines ==
    {Line("chunk", <<"data:", " ", "{", "choices", "[", "a", "]", "}">>),
     Line("chunk", <<"data:", "{", "choices", "[", "b", "]", "}", " ">>),
     Line("no_choices", <<"data:", " ", "{", "choices", "[", "]", "}">>),
     Line("no_choices", <<"data:", " ", "{", "}">>),
     Line("invalid_json", <<"data:", " ", "{", "choices", "[", "a">>),
     Line("invalid_json", <<"data:">>),
     Line("done", <<"data:", " ", "[DONE]">>),
     Line("not_data", <<"event:", " ", "ping">>),
     Line("not_data", <<>>),
     Line("not_data", <<" ", "data:", " ", "{", "choices", "[", "a", "]", "}">>),
     Line("not_object", <<"data:", " ", "null">>)}

\* Lines of one response body.
MaxStreamLines == 4

\* line.startswith("data:")
starts_with_data(text) == text # <<>> /\ text[1] = "data:"

\* line[len("data:"):].strip()
data_of(text) == text_strip(SubSeq(text, 2, Len(text)))

\* json.loads(data): a JSONDecodeError, null, or an object with its choices
\* (none when the key is missing).
JSONDecodeError == [ok |-> FALSE, type |-> "error", choices |-> <<>>]

json_loads_chunk(data) ==
    IF data = <<"null">> THEN [ok |-> TRUE, type |-> "null", choices |-> <<>>]
    ELSE IF Len(data) >= 2 /\ data[1] = "{" /\ data[Len(data)] = "}"
    THEN LET body == SubSeq(data, 2, Len(data) - 1)
         IN  IF body = <<>> THEN [ok |-> TRUE, type |-> "object", choices |-> <<>>]
             ELSE IF /\ Len(body) >= 3 /\ body[1] = "choices" /\ body[2] = "["
                     /\ body[Len(body)] = "]"
                     /\ \A k \in 3..(Len(body) - 1) : body[k] \in {"a", "b"}
             THEN [ok |-> TRUE, type |-> "object",
                   choices |-> SubSeq(body, 3, Len(body) - 1)]
             ELSE JSONDecodeError
    ELSE JSONDecodeError

\* Delta(content=delta.get("content"), ...) of choices[0]
Delta(choice) == [content |-> <<choice>>]

\* A client that lets the JSONDecodeError of a chunk end the stream
after_decode_error_raising(st) == [st EXCEPT !.pc = "raised"]

\* "except json.JSONDecodeError: continue"
after_decode_error(st) == st

\* One pass of "async for line in resp.aiter_lines()" over the line text, on
\* the state st of the generator: pc is "open" while it runs, "done" after
\* the return at [DONE] and "raised" when an exception left it, which
\* run_agent_loop reports as an unexpected error before it returns.
stream_line(st, text) ==
    IF ~starts_with_data(text) THEN st
    ELSE LET data == data_of(text)
         IN  IF data = <<"[DONE]">> THEN [st EXCEPT !.pc = "done"]
             ELSE LET chunk == json_loads_chunk(data)
                  IN  IF ~chunk.ok THEN after_decode_error(st)
                      ELSE IF chunk.type # "object" THEN [st EXCEPT !.pc = "raised"]
                      ELSE IF chunk.choices = <<>> THEN st
                      ELSE [st EXCEPT !.delivered = Append(@, Delta(chunk.choices[1]))]

StreamInit ==
    \E lines \in SeqsUpTo(StreamLines, MaxStreamLines) :
        streamProbe = [pc |-> "open", lines |-> lines, pos |-> 1, delivered |-> <<>>]

\* The loop of stream_chat takes the next line of the body.
StreamLineRead ==
    /\ streamProbe.pc = "open"
    /\ streamProbe.pos <= Len(streamProbe.lines)
    /\ streamProbe' =
           [stream_line(streamProbe, streamProbe.lines[streamProbe.pos].text)
                EXCEPT !.pos = streamProbe.pos + 1]
    /\ UNCHANGED <<programVars, markerProbe, scrollProbe, store, formatProbe, wrapper, chunkProbe, persist>>

\* The body has no more lines: the generator ends.
StreamExhausted ==
    /\ streamProbe.pc = "open"
    /\ streamProbe.pos > Len(streamProbe.lines)
    /\ streamProbe' = [streamProbe EXCEPT !.pc = "exhausted"]
    /\ UNCHANGED <<programVars, markerProbe, scrollProbe, store, formatProbe, wrapper, chunkProbe, persist>>

NextStream == StreamLineRead \/ StreamExhausted

InitStream == GestureInit /\ PtyInit /\ AgentInit /\ onlcr = TRUE /\ NoMarkerProbe /\ NoScrollProbe /\ NoStore /\ NoFormatProbe /\ StreamInit /\ NoWrapper /\ NoChunkProbe /\ NoPersist

SpecStream == InitStream /\ [][NextStream]_vars

(***************************************************************************)
(* Properties of the escape gesture (SpecGesture).                         *)
(***************************************************************************)
ShortcutBytes == {"f", "e"}

\* The handler of this step is _on_stdin_ready, called with lastEvent'.data.
StdinStep == stdinReads' = stdinReads + 1 /\ lastEvent'.kind = "stdin"

\* The handler of this step is _shortcut_timeout_fired.
ShortcutTimeoutStep == stdinReads' = stdinReads /\ lastEvent'.kind = "shortcut_timeout"

\* ESC bytes still missing to reach DOUBLE_ESC from the detector's state.
EscsToDouble == IF double_esc_pending THEN 0 ELSE IF esc_pending THEN 1 ELSE 2

\* The chunk of this step completes the double ESC (if it was not complete
\* already) and goes on with a byte that is not a shortcut byte.
ResolvingChunk ==
    LET data == lastEvent'.data
        n == EscsToDouble
    IN  /\ Len(data) > n
        /\ \A i \in 1..n : data[i] = ESC
        /\ data[n + 1] \notin ShortcutBytes

\* AI mode was entered once by this step, the detector is IDLE with no timer
\* armed, and the shell received nothing.
EnteredAIMode ==
    /\ aiEnters' = aiEnters + 1
    /\ ai_mode' /\ ai_active' /\ ai_buffer' = <<>>
    /\ ~esc_pending' /\ ~double_esc_pending'
    /\ ~esc_timer' /\ ~shortcut_timer'
    /\ toMaster' = toMaster
    /\ fixCalls' = fixCalls /\ explainCalls' = explainCalls

\* C1: in passthrough mode, once the detector is in DOUBLE_ESC (two ESC bytes,
\* the second before the ESC timer fired), the expiry of the shortcut timer or
\* a byte that is not a shortcut byte enters AI mode exactly once, returns the
\* detector to IDLE and writes no byte to the shell; the same holds when the
\* second ESC and the resolving byte arrive in one chunk.  DOUBLE_ESC is only
\* held in passthrough mode, with the shortcut timer armed.
C1_DoubleEscEntersAIMode ==
    [][/\ double_esc_pending => (~ai_mode /\ shortcut_timer /\ ~esc_pending /\ ~esc_timer)
       /\ (double_esc_pending /\ ShortcutTimeoutStep) => EnteredAIMode
       /\ (~ai_mode /\ StdinStep /\ ResolvingChunk) => EnteredAIMode]_vars

\* C1 happens: ESC ESC and then "x" entered AI mode, nothing reached the shell.
C1_Witness ==
    /\ lastEvent.kind = "stdin" /\ lastEvent.data = <<"x">>
    /\ stdinReads >= 2
    /\ aiEnters = 1 /\ ai_mode /\ toMaster = <<>>

(***************************************************************************)
(* Properties of the command executor and of PTY output (SpecPty).         *)
(***************************************************************************)
\* Position of the marker token of a complete marker line of execution m in
\* the text t: at the start of a line, the marker, digits, the closing "___"
\* and the line's end as the PTY delivers it (0 when there is no such line).
marker_line_at(t, m) ==
    LET hits == {i \in 1..Len(t) :
                    /\ t[i] = MarkerTok(m)
                    /\ (i = 1 \/ t[i - 1] \in Newlines)
                    /\ DigitsEnd(t, i + 1) >= i + 1
                    /\ DigitsEnd(t, i + 1) + 2 <= Len(t)
                    /\ t[DigitsEnd(t, i + 1) + 1] = "E"
                    /\ t[DigitsEnd(t, i + 1) + 2] \in Newlines}
    IN  IF hits = {} THEN 0 ELSE CHOOSE i \in hits : \A j \in hits : i <= j

\* C2: while a confirmed execution waits, once the text read so far holds the
\* complete marker line, the pending result is resolved with the digits of the
\* marker line as exit code (0 for echo hi, 1 for false) and, as output, the
\* trimmed text between the echoed command line and the marker line.
C2_ResolvesOnMarkerLine ==
    (exec_pc = "waiting" /\ marker_line_at(capture_buf, marker) # 0) =>
        /\ result_future = "done"
        /\ future_value.exit_code = ExitStatus(exec_cmd)
        /\ future_value.output = CommandOutput(exec_cmd)

\* C7: the timeout is taken only while no marker line has resolved the result;
\* it writes exactly one interrupt byte to the PTY and nothing else is written
\* during the grace period; the call then returns (it does not raise unless it
\* is cancelled) the result timed_out = TRUE, exit code -1 and the raw output
\* of everything read since the injection, whatever arrived during the grace
\* period; a returned result has exit code -1 exactly when it timed out.
C7_TimeoutResult ==
    [][/\ (exec_pc = "waiting" /\ exec_pc' = "grace") =>
              /\ result_future = "pending"
              /\ toMaster' = Append(toMaster, "^C")
       /\ (exec_pc = "grace" /\ exec_pc' = "grace") =>
              /\ toMaster' = toMaster
              /\ result_future' = "cancelled"
       /\ (exec_pc = "grace" /\ exec_pc' = "idle" /\ lastResult'.kind # "raised") =>
              lastResult' = [kind |-> "result",
                             stdout |-> extract_output_raw(execRead),
                             exit_code |-> -1,
                             timed_out |-> TRUE]
       /\ (exec_pc = "waiting" /\ exec_pc' = "idle" /\ lastResult'.kind # "raised") =>
              /\ lastResult'.kind = "result"
              /\ ~lastResult'.timed_out
              /\ lastResult'.exit_code >= 0
       /\ lastResult'.kind = "result" =>
              (lastResult'.exit_code = -1 <=> lastResult'.timed_out)]_vars

\* C7 happens: with "\n" line ends the marker line arrived in the grace period
\* (it is part of the raw output) and the result is still the timed-out one.
C7_Witness ==
    /\ ~onlcr
    /\ lastResult.kind = "result" /\ lastResult.timed_out /\ lastResult.exit_code = -1
    /\ \E i \in 1..Len(lastResult.stdout) : lastResult.stdout[i] = "E"
    /\ \E i \in 1..Len(toMaster) : toMaster[i] = "^C"

\* C8: whenever no execution is in progress (before the first, after a declined
\* one, and after one that returned by marker, by timeout, or raised on
\* cancellation) the capture observer is not registered and echo-through is
\* off; the return restores the observers registered before the call; and
\* echo-through is on exactly while a confirmed execution is in progress.
C8_ObserverRemoved ==
    [][/\ exec_pc' = "idle" =>
              /\ on_master_output' = <<"scrollback">>
              /\ ~show_pty_output'
       /\ (exec_pc # "idle" /\ exec_pc' = "idle") =>
              on_master_output' = observersBefore
       /\ show_pty_output' <=> exec_pc' \in {"waiting", "grace"}
       /\ exec_pc' \in {"waiting", "grace"} =>
              on_master_output' = <<"scrollback", "capture">>]_vars

\* C8 happens: an execution was cancelled after output had been captured, and
\* only the scrollback observer is registered.
C8_Witness ==
    /\ lastResult.kind = "raised" /\ exec_pc = "idle"
    /\ counter = 1 /\ readLog # <<>>
    /\ on_master_output = <<"scrollback">> /\ ~show_pty_output

\* The chunk read by this step of _on_master_ready (<<>> for other steps).
ChunkRead == SubSeq(readLog', Len(readLog) + 1, Len(readLog'))

\* C9: what the scrollback emulator was fed is what was read from the PTY
\* master, chunk by chunk in the order read, whatever the mode and the
\* suppression; the capture observer of an execution in progress received
\* every chunk read since it was registered, in order; and the real terminal
\* receives each chunk it is given after all earlier ones, unchanged.
C9_OrderedDelivery ==
    [][/\ readLog' = readLog \o ChunkRead
       /\ scrollbackFed = readLog
       /\ scrollbackFed' = scrollbackFed \o ChunkRead
       /\ (exec_pc # "idle" /\ exec_pc' = exec_pc) => capture_buf' = capture_buf \o ChunkRead
       /\ exec_pc' # "idle" => capture_buf' = execRead'
       /\ terminalOut' \in {terminalOut, terminalOut \o ChunkRead}]_vars

\* C9 happens: chunks were read in AI mode with and without suppression, so the
\* terminal got less than the scrollback emulator, which got everything.
C9_Witness ==
    /\ scrollbackFed = readLog
    /\ Len(readLog) >= 4
    /\ terminalOut # <<>> /\ Len(terminalOut) < Len(readLog)
    /\ exec_pc = "waiting" /\ capture_buf # <<>> /\ ai_mode

\* C10: the chunk read is written to the real terminal if and only if AI mode
\* is inactive or echo-through is enabled when it is read; in AI mode with no
\* execution in progress nothing reaches the real terminal.
C10_EchoRule ==
    [][/\ ChunkRead # <<>> =>
              IF ~ai_mode \/ show_pty_output
              THEN terminalOut' = terminalOut \o ChunkRead
              ELSE terminalOut' = terminalOut
       /\ (ai_mode /\ exec_pc = "idle") => terminalOut' = terminalOut
       /\ ChunkRead = <<>> => terminalOut' = terminalOut]_vars

\* C10 happens: in AI mode output was echoed while an execution ran and output
\* read after it had returned was suppressed.
C10_Witness ==
    /\ ai_mode /\ exec_pc = "idle" /\ counter = 1 /\ modeSwitches = 1
    /\ terminalOut # <<>>
    /\ Len(terminalOut) < Len(readLog)
    /\ SubSeq(readLog, 1, Len(terminalOut)) = terminalOut

(***************************************************************************)
(* Properties of the agent loop (SpecAgent).                               *)
(***************************************************************************)
\* The ids of the tool calls of an assistant message, in order.
CallIds(m) == [k \in 1..Len(m.tool_calls) |-> m.tool_calls[k].id]

\* Every assistant message with tool calls is followed by one tool message per
\* call, in the calls' order, each with that call's id.
ResultsFollowCalls(msgs) ==
    \A p \in 1..Len(msgs) :
        (msgs[p].role = "assistant" /\ msgs[p].tool_calls # <<>>) =>
            \A k \in 1..Len(msgs[p].tool_calls) :
                /\ p + k <= Len(msgs)
                /\ msgs[p + k].role = "tool"
                /\ msgs[p + k].tool_call_id = msgs[p].tool_calls[k].id

\* Every tool message carries the id of a tool call of the nearest assistant
\* message before it.
ToolIdsReferToCalls(msgs) ==
    \A q \in 1..Len(msgs) :
        msgs[q].role = "tool" =>
            \E p \in 1..(q - 1) :
                /\ msgs[p].role = "assistant"
                /\ \A r \in (p + 1)..(q - 1) : msgs[r].role # "assistant"
                /\ \E k \in 1..Len(msgs[p].tool_calls) :
                       msgs[p].tool_calls[k].id = msgs[q].tool_call_id

\* C3: a round that produced tool calls is left, unless the turn is cancelled,
\* only by a new request that carries the whole updated history; every request
\* carries the history as it is then; and a turn ends only with a round free
\* of tool calls, with a request error, or by cancellation.
C3_ReissuesAfterToolRound ==
    [][/\ (agent_pc = "tools" /\ agent_pc' # "tools") =>
              \/ outcome' = "cancelled"
              \/ /\ agent_pc' = "streaming"
                 /\ requests' = requests + 1
                 /\ lastRequest' = messages'
       /\ requests' # requests =>
              /\ requests' = requests + 1
              /\ lastRequest' = messages'
       /\ (agent_pc # "idle" /\ agent_pc' = "idle") =>
              outcome' \in {"complete", "transport", "http", "other", "cancelled"}
       /\ (agent_pc # "idle" /\ outcome' = "complete") =>
              /\ agent_pc = "streaming"
              /\ sorted_tool_calls(tool_calls_by_index, ToolIndexes) = <<>>]_vars

\* C4: outside the execution of tool calls, in a turn that was not cancelled,
\* every assistant message with tool calls is followed by exactly one tool
\* result per call, in the calls' order and with the calls' ids, whatever the
\* arguments, the tool name and the tool's behaviour were; the calls were
\* recorded in the order of their index; and every tool message refers to a
\* call of the nearest assistant message before it.
C4_ToolResultsFollowCalls ==
    /\ (agent_pc # "tools" /\ outcome # "cancelled") => ResultsFollowCalls(messages)
    /\ agent_pc = "tools" =>
           /\ tool_calls = sorted_tool_calls(tool_calls_by_index, ToolIndexes)
           /\ messages[Len(messages) - (tc_pos - 1)].tool_calls = tool_calls
    /\ ToolIdsReferToCalls(messages)

\* C5 as stated: after a turn aborted by a transport error, in whichever round,
\* the user message added for the turn is no longer in the history.
C5_UserMessageRolledBackInEveryRound ==
    (agent_pc = "idle" /\ outcome = "transport") =>
        \A i \in (turnStart + 1)..Len(messages) : messages[i].role # "user"

\* C5, amended: a transport error aborts the turn without another request; the
\* user message added for the turn is rolled back, the history being again the
\* one before the turn, exactly when the error happens in the turn's first
\* round; in a later round the history is left as it is, the turn's user
\* message, tool calls and tool results included.
C5_RollbackInFirstRoundOnly ==
    [][(agent_pc = "streaming" /\ outcome' = "transport") =>
           /\ agent_pc' = "idle"
           /\ requests' = requests
           /\ IF round = 1
              THEN /\ Len(messages) = turnStart + 1
                   /\ messages' = SubSeq(messages, 1, turnStart)
              ELSE /\ messages' = messages
                   /\ messages[turnStart + 1].role = "user"
                   /\ messages[Len(messages)].role = "tool"]_vars

\* C5 happens: the transport error came in the second round, and the history
\* holds the turn's user message, the tool calls and a tool result.
C5_Witness ==
    /\ agent_pc = "idle" /\ outcome = "transport" /\ round = 2
    /\ Len(messages) >= turnStart + 3
    /\ messages[turnStart + 1].role = "user"
    /\ messages[Len(messages)].role = "tool"

\* C6: when the turn is cancelled while the stream is consumed, the content
\* fragments received in the round are appended to the history as one
\* assistant message, in arrival order.
C6_CancellationCommitsContent ==
    [][(agent_pc = "streaming" /\ outcome' = "cancelled" /\ Join(content_parts) # <<>>) =>
           messages' = add_assistant(messages, Join(content_parts))]_vars

(***************************************************************************)
(* Terminal input in AI mode (SpecAiInput) and the gesture detector        *)
(***************************************************************************)

\* The gesture detector is where it was: no state, no timer, no callback changed.
DetectorUntouched ==
    /\ UNCHANGED <<esc_pending, double_esc_pending, esc_timer, shortcut_timer>>
    /\ UNCHANGED <<aiEnters, fixCalls, explainCalls>>

ShortcutChunk ==
    LET data == lastEvent'.data
        n == EscsToDouble
    IN  /\ Len(data) > n
        /\ \A i \in 1..n : data[i] = ESC
        /\ data[n + 1] \in ShortcutBytes

\* The shortcut byte of a chunk for which ShortcutChunk holds.
ShortcutByte == lastEvent'.data[EscsToDouble + 1]

\* The callback of the shortcut byte was called once by this step and the other
\* callbacks were not; AI mode is on, the detector is IDLE with no timer armed,
\* and the shell received nothing.
ShortcutTaken ==
    /\ fixCalls' = fixCalls + (IF ShortcutByte = "f" THEN 1 ELSE 0)
    /\ explainCalls' = explainCalls + (IF ShortcutByte = "e" THEN 1 ELSE 0)
    /\ aiEnters' = aiEnters
    /\ ai_mode'
    /\ ~esc_pending' /\ ~double_esc_pending'
    /\ ~esc_timer' /\ ~shortcut_timer'
    /\ toMaster' = toMaster

\* C12: in passthrough mode, when the detector is in DOUBLE_ESC (or the chunk
\* brings it there) and "f" or "e" arrives before the shortcut timer fires, the
\* callback of that byte is called exactly once, the shortcut timer is
\* cancelled, the detector is IDLE and no byte is written to the shell.  The
\* shortcut timer only fires from DOUBLE_ESC, so the plain entry into AI mode
\* does not follow a shortcut.
C12_ShortcutCallsItsCallbackOnce ==
    [][/\ (~ai_mode /\ StdinStep /\ ShortcutChunk) => ShortcutTaken
       /\ ShortcutTimeoutStep => double_esc_pending
       /\ shortcut_timer' => double_esc_pending']_vars

\* C12 happens: ESC ESC and then the chunk "f" "x" called the fix-it callback
\* once; AI mode was not entered the plain way and nothing reached the shell.
C12_Witness ==
    /\ lastEvent.kind = "stdin" /\ lastEvent.data = <<"f", "x">>
    /\ stdinReads >= 2
    /\ fixCalls = 1 /\ explainCalls = 0 /\ aiEnters = 0
    /\ ai_mode /\ ~shortcut_timer /\ ~double_esc_pending
    /\ toMaster = <<>>

\* The handler of this step is _esc_timeout_fired.
EscTimeoutStep == stdinReads' = stdinReads /\ lastEvent'.kind = "esc_timeout"

\* No callback was called by this step and the mode is what it was.
NothingTriggered ==
    /\ UNCHANGED <<aiEnters, fixCalls, explainCalls, ai_mode, ai_active, queryTasks>>

\* The detector is IDLE after this step, with no timer armed.
IdleAfter ==
    /\ ~esc_pending' /\ ~double_esc_pending'
    /\ ~esc_timer' /\ ~shortcut_timer'

\* C13: the ESC timer only fires in ESC_PENDING in passthrough mode; its expiry
\* writes the pending ESC to the shell, leaves the detector IDLE and triggers
\* nothing.  A chunk of one byte that is not ESC, read next, is written to the
\* shell after that ESC: the shell's input then ends with ESC and the byte.
C13_LoneEscIsFlushedOnTimeout ==
    [][/\ EscTimeoutStep =>
              /\ esc_pending /\ ~double_esc_pending /\ ~ai_mode
              /\ toMaster' = Append(toMaster, ESC)
              /\ IdleAfter
              /\ NothingTriggered
       /\ (lastEvent.kind = "esc_timeout" /\ StdinStep
               /\ Len(lastEvent'.data) = 1 /\ lastEvent'.data[1] # ESC) =>
              /\ toMaster' = toMaster \o lastEvent'.data
              /\ SubSeq(toMaster', Len(toMaster), Len(toMaster'))
                     = <<ESC>> \o lastEvent'.data
              /\ IdleAfter
              /\ NothingTriggered]_vars

\* C13 happens: a single ESC, the expiry of its timer and then "x": the shell
\* received exactly ESC and "x", and nothing was triggered.
C13_Witness ==
    /\ lastEvent.kind = "stdin" /\ lastEvent.data = <<"x">>
    /\ lastEvent.after_esc_timeout
    /\ stdinReads = 2
    /\ toMaster = <<ESC, "x">>
    /\ ~ai_mode /\ aiEnters = 0 /\ fixCalls = 0 /\ explainCalls = 0
    /\ ~esc_pending /\ ~esc_timer

\* The chunk of this step brings a byte that is not ESC while the detector is
\* in ESC_PENDING, or brings the detector there from IDLE with its first byte
\* and goes on with such a byte.
EscThenOtherChunk ==
    LET data == lastEvent'.data
    IN  /\ ~double_esc_pending
        /\ IF esc_pending
           THEN data[1] # ESC
           ELSE Len(data) > 1 /\ data[1] = ESC /\ data[2] # ESC

\* What the chunk of such a step holds from its first byte that is not ESC.
FromOtherByte ==
    IF esc_pending THEN lastEvent'.data ELSE Tail(lastEvent'.data)

\* C14: in passthrough mode a byte that is not ESC, arriving in ESC_PENDING
\* before the ESC timer fires, cancels the timer, returns the detector to IDLE
\* and writes to the shell the ESC and then the byte (with what follows it in
\* the chunk), once each; nothing is triggered.  The ESC timer is armed only
\* in ESC_PENDING, so a cancelled timer writes no second ESC.
C14_EscThenByteForwardsBoth ==
    [][/\ (~ai_mode /\ StdinStep /\ EscThenOtherChunk) =>
              /\ toMaster' = toMaster \o <<ESC>> \o FromOtherByte
              /\ IdleAfter
              /\ NothingTriggered
       /\ esc_timer' => esc_pending'
       /\ EscTimeoutStep => esc_pending]_vars

\* C14 happens: ESC and then "x" in a later chunk reached the shell as ESC "x",
\* with the detector IDLE and no timer armed.
C14_Witness ==
    /\ lastEvent.kind = "stdin" /\ lastEvent.data = <<"x">>
    /\ stdinReads = 2
    /\ toMaster = <<ESC, "x">>
    /\ ~lastEvent.after_esc_timeout
    /\ ~ai_mode /\ ~esc_pending /\ ~esc_timer /\ ~double_esc_pending

(***************************************************************************)
(* The confirmation prompt and the completion markers (SpecPty)            *)
(***************************************************************************)

\* The step in which execute returns because the confirmation was declined.
DeclineStep ==
    exec_pc = "idle" /\ lastResult'.kind = "declined" /\ lastResult' # lastResult

\* C15: when the confirmation is declined, execute returns the result
\* "Command execution cancelled by user.", writes no byte to the PTY, registers
\* no observer, leaves echo-through as it was and does not consume a counter
\* value: no execution is in progress afterwards.
C15_DeclinedRunsNothing ==
    [][DeclineStep =>
          /\ lastResult'.text = CancelledByUser
          /\ toMaster' = toMaster
          /\ shellScript' = shellScript
          /\ on_master_output' = on_master_output
          /\ show_pty_output' = show_pty_output
          /\ counter' = counter /\ marker' = marker
          /\ exec_pc' = "idle"]_vars

\* C15 happens: an execution was declined after a confirmed one had returned;
\* the shell has received the one command only and the counter stands at one.
C15_Witness ==
    /\ lastResult.kind = "declined" /\ lastResult.text = CancelledByUser
    /\ exec_pc = "idle"
    /\ counter = 1 /\ toMaster = <<"cmd">>
    /\ on_master_output = <<"scrollback">> /\ ~show_pty_output

\* C16: for every pair of different counter values of one process the two
\* markers are different texts, and the marker line of the one execution,
\* arriving (for instance late, after a timeout) in what the other execution
\* captures, is not found by the other execution's pattern, whatever the exit
\* status; the pattern does find the marker line of its own execution.
C16_MarkersDistinct ==
    markerProbe.pc = "computed" =>
        /\ markerProbe.own_matches
        /\ markerProbe.a # markerProbe.b =>
               /\ markerProbe.marker_a # markerProbe.marker_b
               /\ ~markerProbe.late_matches

\* C16 happens: for the counter values 1 and 17 of process 1 the marker ids are
\* "11" and "111"; the marker line of the first is not matched by the pattern
\* of the second, which matches its own line.
C16_Witness ==
    /\ markerProbe.pc = "computed"
    /\ markerProbe.pid = 1 /\ markerProbe.a = 1 /\ markerProbe.b = 17
    /\ markerProbe.marker_a = <<"___LLAMINAL_DONE_", "1", "1">>
    /\ markerProbe.marker_b = <<"___LLAMINAL_DONE_", "1", "1", "1">>
    /\ ~markerProbe.late_matches /\ markerProbe.own_matches

(***************************************************************************)
(* Query tasks and their tool invocations (SpecAiInput)                    *)
(***************************************************************************)

\* The query tasks that wait for a tool invocation to return: its confirmation
\* was asked for and its execution in the PTY has not returned.
ToolsOutstanding == {t \in 1..Len(queryTasks) : queryTasks[t].pc = "tool"}

StreamEndStep ==
    agent_pc = "streaming" /\ (outcome' = "complete" \/ agent_pc' = "tools")

\* No tool-call delta arrived in the round.
AccumulatorEmpty == \A i \in ToolIndexes : ~tool_calls_by_index[i].present

\* The last message of the history after this step.
LastMessage == messages'[Len(messages')]

\* A request is issued only as the first of a turn or after a tool result.
RequestFollowsUserOrTool ==
    requests' = requests + 1 => LastMessage.role \in {"user", "tool"}

\* C18 as stated: when the stream ends with an empty tool-call accumulator, the
\* text streamed in the round, whatever it is, is appended to the history as
\* an assistant message, the turn is complete and no request is issued.
C18_FinalTextAlwaysAppended ==
    [][/\ (StreamEndStep /\ AccumulatorEmpty) =>
              /\ messages' = Append(messages,
                                    Message("assistant", streamed.text, <<>>, ""))
              /\ outcome' = "complete" /\ agent_pc' = "idle"
              /\ requests' = requests
       /\ RequestFollowsUserOrTool]_vars

\* C18, amended: when the stream ends with an empty tool-call accumulator, the
\* text streamed in the round is appended to the history as an assistant
\* message if it is not empty, and the history is left as it is if the text is
\* empty; either way the turn is complete and no request is issued.
C18_FinalTextAppendedUnlessEmpty ==
    [][/\ (StreamEndStep /\ AccumulatorEmpty) =>
              /\ messages' = IF streamed.text # <<>>
                             THEN Append(messages,
                                         Message("assistant", streamed.text, <<>>, ""))
                             ELSE messages
              /\ outcome' = "complete" /\ agent_pc' = "idle"
              /\ requests' = requests
       /\ RequestFollowsUserOrTool]_vars

\* C18 happens: a round without tool calls streamed "a" and "b"; they are the
\* final assistant message of a complete turn that issued one request.
C18_Witness ==
    /\ outcome = "complete" /\ agent_pc = "idle" /\ requests = 1 /\ deltas = 2
    /\ Len(messages) = 3
    /\ messages[3] = Message("assistant", <<"a", "b">>, <<>>, "")

\* C19: while a round streams, the text reassembled from the content deltas is
\* the concatenation, in order of arrival, of their fragments, however the
\* text was split (empty fragments and tool-call deltas in between included);
\* and the assistant message recorded at the end of the stream carries exactly
\* that text (no content when the text is empty).
C19_ContentIsTheStreamedText ==
    [][/\ agent_pc' = "streaming" => Join(content_parts') = streamed'.text
       /\ (StreamEndStep /\ (streamed.text # <<>> \/ ~AccumulatorEmpty)) =>
              /\ Len(messages') = Len(messages) + 1
              /\ LastMessage.role = "assistant"
              /\ LastMessage.content = streamed.text]_vars

\* C19 happens: the text "a" "b" arrived as the fragments "a" and "b" with a
\* tool-call delta in the same round, and the recorded content is "a" "b".
C19_Witness ==
    /\ agent_pc = "tools" /\ deltas = 3
    /\ content_parts = << <<"a">>, <<"b">> >>
    /\ messages[Len(messages)].role = "assistant"
    /\ messages[Len(messages)].content = <<"a", "b">>
    /\ messages[Len(messages)].tool_calls # <<>>

\* The indexes for which a tool-call delta arrived in the round.
PresentIndexes == {i \in ToolIndexes : tool_calls_by_index[i].present}

\* The position of index i in the finalized list of tool calls.
PositionOf(i) == 1 + Cardinality({j \in PresentIndexes : j < i})

\* C20: while a round streams, the record of every tool-call index holds as
\* name and as arguments the concatenation, in order of arrival, of the
\* fragments streamed for that index, and an index for which no delta arrived
\* has no record; the finalized list holds one call per index with a record,
\* in ascending order of index, with that name and those arguments, and it is
\* the list recorded in the assistant message.
C20_ToolCallsAreTheStreamedFragments ==
    [][/\ agent_pc' = "streaming" =>
              \A i \in ToolIndexes :
                  /\ tool_calls_by_index'[i].name = streamed'.name[i]
                  /\ tool_calls_by_index'[i].arguments = streamed'.arguments[i]
       /\ (StreamEndStep /\ ~AccumulatorEmpty) =>
              /\ Len(tool_calls') = Cardinality(PresentIndexes)
              /\ \A i \in PresentIndexes :
                     /\ tool_calls'[PositionOf(i)].name = streamed.name[i]
                     /\ tool_calls'[PositionOf(i)].arguments = streamed.arguments[i]
                     /\ tool_calls'[PositionOf(i)].id = tool_calls_by_index[i].id
              /\ LastMessage.tool_calls = tool_calls']_vars

\* C20 happens: the name of index 0 arrived as "ba" and "sh", the second
\* fragment with the arguments "}", and a delta for index 1 arrived in the
\* same round; the finalized calls are bash for index 0 and nope for index 1.
C20_Witness ==
    /\ agent_pc = "tools" /\ deltas = 3
    /\ tool_calls = <<[id |-> "id_a", name |-> BashName, arguments |-> <<"}">>],
                      [id |-> "call_1", name |-> <<"nope">>, arguments |-> <<>>]>>

(***************************************************************************)
(* Properties of the scrollback compression (SpecScrollback).              *)
(***************************************************************************)
\* The maximal runs of non-blank lines of a list: where they start, where the
\* run that starts at s ends, and how long it is.
NonBlankRunStarts(r) ==
    {s \in 1..Len(r) : r[s] # <<>> /\ (s = 1 \/ r[s - 1] = <<>>)}

NonBlankRunEnds(r) ==
    {e \in 1..Len(r) : r[e] # <<>> /\ (e = Len(r) \/ r[e + 1] = <<>>)}

RunEndFrom(r, s) ==
    CHOOSE e \in NonBlankRunEnds(r) :
        e >= s /\ \A f \in NonBlankRunEnds(r) : f >= s => e <= f

RunLength(r, s) == RunEndFrom(r, s) - s + 1

\* By how many lines a run of L lines shrinks: more than 80 lines become 41.
LinesLost(L) == IF L > 80 THEN L - 41 ELSE 0

RECURSIVE LinesLostIn(_, _)
LinesLostIn(r, starts) ==
    IF starts = {} THEN 0
    ELSE LET s == CHOOSE x \in starts : TRUE
         IN  LinesLost(RunLength(r, s)) + LinesLostIn(r, starts \ {s})

\* Where the line at position k of r, which starts a run or is blank, is found
\* after the truncation.
PlaceAfterTruncation(r, k) ==
    k - LinesLostIn(r, {s \in NonBlankRunStarts(r) : s < k})

HundredIdenticalLines == [k \in 1..100 |-> <<"ok">>]

\* C21: in the compression, every maximal run of more than 80 consecutive
\* non-blank lines that reaches the truncation stage is replaced by its first
\* 20 lines, one marker line reporting the run length minus 40 as the number of
\* truncated lines, and its last 20 lines; a run of 80 lines or fewer, and
\* every blank line, is left as it is; and 100 identical non-blank lines come
\* out as 20 lines, a marker reporting 60, and 20 lines.
C21_LongBlocksKeepTwentyAtEachEnd ==
    scrollProbe.pc = "compressed" =>
        LET r == scrollProbe.result
            c == scrollProbe.compressed
        IN  /\ Len(c) = Len(r) - LinesLostIn(r, NonBlankRunStarts(r))
            /\ \A s \in NonBlankRunStarts(r) :
                   LET e == RunEndFrom(r, s)
                       L == e - s + 1
                       p == PlaceAfterTruncation(r, s)
                   IN  IF L > 80
                       THEN /\ SubSeq(c, p, p + 19) = SubSeq(r, s, s + 19)
                            /\ c[p + 20] = <<"... (">> \o Decimal(L - 40)
                                               \o <<" lines truncated) ...">>
                            /\ SubSeq(c, p + 21, p + 40) = SubSeq(r, e - 19, e)
                       ELSE SubSeq(c, p, p + L - 1) = SubSeq(r, s, e)
            /\ \A k \in 1..Len(r) :
                   r[k] = <<>> => c[PlaceAfterTruncation(r, k)] = <<>>
            /\ scrollProbe.lines = HundredIdenticalLines =>
                   scrollProbe.final =
                       [k \in 1..20 |-> <<"ok">>]
                       \o << <<"... (", "6", "0", " lines truncated) ...">> >>
                       \o [k \in 1..20 |-> <<"ok">>]

\* 100 identical lines have been compressed to 41 lines.
C21_Witness ==
    /\ scrollProbe.pc = "compressed"
    /\ scrollProbe.lines = HundredIdenticalLines
    /\ Len(scrollProbe.final) = 41
    /\ scrollProbe.final[21] = <<"... (", "6", "0", " lines truncated) ...">>

\* The maximal runs of progress lines of a list, each with its first and its
\* last position.
ProgressRunStarts(l) ==
    {s \in 1..Len(l) : is_progress_line(l[s]) /\ (s = 1 \/ ~is_progress_line(l[s - 1]))}

ProgressRunEnds(l) ==
    {e \in 1..Len(l) : is_progress_line(l[e]) /\ (e = Len(l) \/ ~is_progress_line(l[e + 1]))}

ProgressRuns(l) ==
    LET en == ProgressRunEnds(l)
    IN  {[s |-> s, e |-> CHOOSE e \in en : e >= s /\ \A f \in en : f >= s => e <= f] :
            s \in ProgressRunStarts(l)}

\* By how many lines a run of L progress lines shrinks: more than two become three.
ProgressLinesLost(L) == IF L > 2 THEN L - 3 ELSE 0

RECURSIVE ProgressLinesLostIn(_)
ProgressLinesLostIn(runs) ==
    IF runs = {} THEN 0
    ELSE LET x == CHOOSE y \in runs : TRUE
         IN  ProgressLinesLost(x.e - x.s + 1) + ProgressLinesLostIn(runs \ {x})

\* Where the line at position k, which starts a run of progress lines or is
\* no progress line, is found after the collapse of the runs.
PlaceAfterCollapse(runs, k) == k - ProgressLinesLostIn({x \in runs : x.s < k})

\* C22: in the compression, every maximal run of more than two consecutive
\* progress lines is replaced by its first line, one marker line reporting the
\* number of lines collapsed (the run length minus 2) and its last line; runs
\* of one or two progress lines and all other lines are kept unchanged and in
\* order; and the collapse comes before the large-block truncation: a block
\* that the collapse brings down to 80 lines or fewer is not truncated.
C22_ProgressRunsKeepFirstAndLast ==
    scrollProbe.pc = "compressed" =>
        LET l == scrollProbe.lines
            r == scrollProbe.result
            runs == ProgressRuns(l)
            inRun == UNION {x.s..x.e : x \in runs}
        IN  /\ Len(r) = Len(l) - ProgressLinesLostIn(runs)
            /\ \A x \in runs :
                   LET L == x.e - x.s + 1
                       p == PlaceAfterCollapse(runs, x.s)
                   IN  IF L > 2
                       THEN /\ r[p] = l[x.s]
                            /\ r[p + 1] = <<"... (">> \o Decimal(L - 2)
                                              \o <<" lines of progress output) ...">>
                            /\ r[p + 2] = l[x.e]
                       ELSE SubSeq(r, p, p + L - 1) = SubSeq(l, x.s, x.e)
            /\ \A k \in (1..Len(l)) \ inRun : r[PlaceAfterCollapse(runs, k)] = l[k]
            /\ (\A s \in NonBlankRunStarts(r) : RunLength(r, s) <= 80) =>
                   scrollProbe.compressed = r

\* 41 numbered lines and 82 progress lines after them, 123 non-blank lines in
\* all, have been compressed to 44 lines: the 41 lines, the first progress
\* line, the marker reporting 80 and the last progress line.
C22_Witness ==
    /\ scrollProbe.pc = "compressed"
    /\ Len(scrollProbe.lines) = 123
    /\ ProgressRuns(scrollProbe.lines) = {[s |-> 42, e |-> 123]}
    /\ Len(scrollProbe.final) = 44
    /\ scrollProbe.final[42] = scrollProbe.lines[42]
    /\ scrollProbe.final[43] = <<"... (", "8", "0", " lines of progress output) ...">>
    /\ scrollProbe.final[44] = scrollProbe.lines[123]

\* The number of lines of what get_context returned: none for None.
ContextLineCount(context) ==
    IF context.none THEN 0
    ELSE Cardinality({i \in DOMAIN context.text : context.text[i] = "NL"}) + 1

\* The last m lines of a list, all of them when it has no more than m.
LastLines(c, m) == IF m >= Len(c) THEN c ELSE SubSeq(c, Len(c) - m + 1, Len(c))

\* C23: for every line limit maxLines (from 0 on), get_context(maxLines)
\* returns at most maxLines lines, namely the text of the last maxLines lines
\* of the compressed scrollback (without the white space around it), and it
\* returns None when nothing remains.
C23_ContextIsTheLastMaxLines ==
    (scrollProbe.pc = "context" /\ scrollProbe.max_lines >= 0) =>
        LET m == scrollProbe.max_lines
            c == compress(trim_trailing_empty(scrollProbe.lines))
            expected == text_strip(join_lines(LastLines(c, m)))
        IN  /\ ContextLineCount(scrollProbe.context) <= m
            /\ scrollProbe.context.text = expected
            /\ scrollProbe.context.none <=> expected = <<>>

NonBlank(line) == line # <<>>

\* The positions where a run of blank lines starts.
BlankRunStarts(c) ==
    {k \in 1..Len(c) : c[k] = <<>> /\ (k = 1 \/ c[k - 1] # <<>>)}

\* C29: the output of the compression never holds two consecutive blank lines,
\* whatever the input; and the last stage removes blank lines only: the
\* non-blank lines that left the earlier stages are all there, in their order,
\* and one blank line is left of every run of blank lines.
C29_NoTwoConsecutiveBlankLines ==
    scrollProbe.pc = "compressed" =>
        LET c == scrollProbe.compressed
            f == scrollProbe.final
        IN  /\ \A k \in 1..(Len(f) - 1) : ~(f[k] = <<>> /\ f[k + 1] = <<>>)
            /\ SelectSeq(f, NonBlank) = SelectSeq(c, NonBlank)
            /\ Len(f) - Len(SelectSeq(f, NonBlank)) = Cardinality(BlankRunStarts(c))

\* A line, two blank lines and a line have been compressed to the line, one
\* blank line and the line.
C29_Witness ==
    /\ scrollProbe.pc = "compressed"
    /\ scrollProbe.compressed = << <<"ok">>, <<>>, <<>>, <<"ok">> >>
    /\ scrollProbe.final = << <<"ok">>, <<>>, <<"ok">> >>

(***************************************************************************)
(* Properties of the persistence store (SpecStore).                        *)
(***************************************************************************)
\* C24: saving an ordered list of conversation records and loading it back
\* yields the identical list in the same order, also when the list was saved
\* by several save calls with an advancing start index: what load_session
\* returns is the list of the messages saved so far, and the whole session
\* list once everything has been saved.
C24_SaveThenLoadIsIdentity ==
    store.pc = "loaded" =>
        /\ store.loaded = SubSeq(store.messages, 1, store.save_index)
        /\ store.save_index = Len(store.messages) => store.loaded = store.messages

\* Four records, the last with two tool calls, have been saved by more than
\* one call (a row of another session lies between their rows) and loaded.
C24_Witness ==
    /\ store.pc = "loaded"
    /\ Len(store.messages) = 4 /\ store.save_index = 4
    /\ store.messages[4].tool_calls = <<CallA, CallB>>
    /\ store.messages[3].content = <<"\"", "b", "\\">>
    /\ \E r \in store.db.messages : r.session_id = "other" /\ r.id = 3
    /\ store.loaded = store.messages

(***************************************************************************)
(* Properties of the output cap (SpecFormat).                              *)
(***************************************************************************)
\* C30: the command output returned by the executor is bounded: an output
\* longer than the cap of 10,000 characters is replaced by its first 5,000
\* characters, the truncation note and its last 5,000 characters; an output
\* within the cap is returned unchanged; so what is returned is never longer
\* than 10,000 characters plus the note.
C30_ReturnedOutputIsCapped ==
    formatProbe.pc = "formatted" =>
        LET o == formatProbe.output
            r == formatProbe.result.stdout
            n == Len(o)
        IN  /\ Len(r) <= 10000 + Len(TruncationNote)
            /\ n <= 10000 => r = o
            /\ n > 10000 =>
                   /\ Len(r) = 10000 + Len(TruncationNote)
                   /\ \A k \in 1..5000 : r[k] = o[k]
                   /\ \A k \in 1..Len(TruncationNote) : r[5000 + k] = TruncationNote[k]
                   /\ \A k \in 1..5000 :
                          r[5000 + Len(TruncationNote) + k] = o[n - 5000 + k]
            /\ formatProbe.result.exit_code = formatProbe.exit_code
            /\ formatProbe.result.timed_out = formatProbe.timed_out

\* An output of 10,001 characters has been cut to 10,000 characters and the note.
C30_Witness ==
    /\ formatProbe.pc = "formatted"
    /\ Len(formatProbe.output) = 10001
    /\ formatProbe.output[2] = "2"
    /\ Len(formatProbe.result.stdout) = 10003
    /\ formatProbe.result.stdout[5002] = "... (output truncated) ..."

(***************************************************************************)
(* Properties of the response stream (SpecStream)                          *)
(***************************************************************************)
\* The lines the loop has taken so far.
LinesTaken == SubSeq(streamProbe.lines, 1, streamProbe.pos - 1)

\* The positions of the lines taken that end the stream: the [DONE] line
\* and a payload that is JSON but no object.
StreamEnders ==
    {k \in 1..Len(LinesTaken) : LinesTaken[k].kind \in {"done", "not_object"}}

\* The lines taken before the stream ended.
LinesBeforeEnd ==
    IF StreamEnders = {} THEN LinesTaken
    ELSE SubSeq(LinesTaken, 1, (CHOOSE k \in StreamEnders : \A m \in StreamEnders : k <= m) - 1)

\* The choice a well-formed chunk was written with.
ChoiceWritten(line) == line.text[CHOOSE k \in 1..Len(line.text) : line.text[k] \in {"a", "b"}]

\* The deltas of the well-formed chunks among the lines, in order.
RECURSIVE ChunkDeltas(_)
ChunkDeltas(lines) ==
    IF lines = <<>> THEN <<>>
    ELSE (IF Head(lines).kind = "chunk"
          THEN <<[content |-> <<ChoiceWritten(Head(lines))>>]>> ELSE <<>>)
         \o ChunkDeltas(Tail(lines))

\* C28: a data line whose payload is not valid JSON is skipped without ending
\* the stream, a line without the data: prefix is ignored, the well-formed
\* chunks are delivered in order whatever lines of these two kinds stand
\* between them, and nothing is delivered after [DONE]: the deltas delivered
\* are those of the well-formed chunks before the stream's end, and the
\* stream is open until [DONE], the end of the body, or a payload that is
\* JSON but no object.
C28_MalformedChunksAreSkipped ==
    streamProbe.pc # "none" =>
        /\ streamProbe.delivered = ChunkDeltas(LinesBeforeEnd)
        /\ (StreamEnders = {} => streamProbe.pc \in {"open", "exhausted"})
        /\ (StreamEnders # {} => 
               LET e == CHOOSE k \in StreamEnders : \A m \in StreamEnders : k <= m
               IN  /\ e = streamProbe.pos - 1
                   /\ streamProbe.pc = (IF LinesTaken[e].kind = "done" THEN "done" ELSE "raised"))

\* A chunk, a payload that is not JSON, a line without the prefix and a second
\* chunk were read, both chunks were delivered, and the stream is still open.
C28_Witness ==
    /\ streamProbe.pc = "open"
    /\ streamProbe.pos = 5
    /\ streamProbe.lines[1].kind = "chunk"
    /\ streamProbe.lines[2].kind = "invalid_json"
    /\ streamProbe.lines[3].kind = "not_data"
    /\ streamProbe.lines[4].kind = "chunk"
    /\ Len(streamProbe.delivered) = 2
    /\ streamProbe.delivered[1] # streamProbe.delivered[2]

(***************************************************************************)
(* Properties of the input during a query (SpecAiInput)                    *)
(***************************************************************************)
\* A _run_query task has started and has not ended.
AnyQueryRunning ==
    \E t \in 1..Len(queryTasks) : queryTasks[t].pc \in {"stream", "tool"}

\* A task awaits a tool that executes in the PTY.
AnyToolExecuting == \E t \in 1..Len(queryTasks) : queryTasks[t].pc = "tool"

ChildExitNotified == wrapper.child = "exited" /\ wrapper.sigchld

\* run() has returned.
RunReturned == wrapper.pc \in {"returned", "cleaned"}

\* C25: once the handler of SIGCHLD has found the child exited, the terminal
\* input has reached end of file, or a read of the master has failed or
\* returned no data, the running flag is false; run() then returns (as it
\* does when the child's exit is notified), and after its return it has no
\* reader and the previous signal handlers are in place.
C25_RunReturnsAfterSessionEnd ==
    /\ []((wrapper.pc # "none" /\ wrapper.ended) => ~wrapper.running)
    /\ [](RunReturned =>
             /\ wrapper.readers = {}
             /\ \A s \in Signals : wrapper.handlers[s] = "previous")
    /\ ((wrapper.pc = "loop" /\ (wrapper.ended \/ ChildExitNotified)) ~> RunReturned)

\* The child exited, the handler reaped it and run() returned through the
\* test of the flag.
C25_Witness ==
    /\ wrapper.pc = "returned"
    /\ wrapper.last = Event("run_returns", "-")
    /\ wrapper.child = "reaped"
    /\ wrapper.ended /\ ~wrapper.running
    /\ wrapper.readers = {}

\* The fields of the wrapper after cleanup(): no descriptor, no pid, no saved
\* mode, and the descriptor is closed.
NothingHeld(w) ==
    /\ w.master_fd = -1 /\ w.child_pid = -1 /\ w.original_termios = "None"
    /\ ~w.fd_open

\* The step is a call of cleanup() / of write_to_shell().
CleanupStep == wrapper'.last.kind = "cleanup" /\ wrapper'.cleanups = wrapper.cleanups + 1
WriteStep == wrapper'.last.kind = "write" /\ wrapper.last.kind # "write"

QueriesInFlight ==
    {t \in 1..Len(queryTasks) : queryTasks[t].pc \in {"created", "stream", "tool"}}

\* C32: at most one query is in flight at any time, pending or running.
C32_AtMostOneQueryInFlight == Cardinality(QueriesInFlight) <= 1

\* C33: whenever a query is pending or running, AI mode is active, in the
\* wrapper and in the handler.
C33_AiModeActiveDuringAQuery == QueriesInFlight # {} => (ai_mode /\ ai_active)

(***************************************************************************)
(* The marker line as the PTY delivers it (SpecPty)                        *)
(***************************************************************************)
\* C36: with the line ends the PTY's output processing produces (carriage
\* return plus newline), once the reads since the injection hold the marker
\* line with its line end, however they were cut into chunks and whatever
\* follows the line, the execution is resolved with the exit code of the
\* marker line and is not left to the timeout.
C36_CrlfMarkerLineIsRecognised ==
    (onlcr /\ exec_pc \in {"waiting", "grace"} /\ marker_line_at(execRead, marker) # 0) =>
        /\ exec_pc = "waiting"
        /\ result_future = "done"
        /\ future_value.exit_code = ExitStatus(exec_cmd)

(***************************************************************************)
(* Invariants of the gesture detector (SpecGesture)                        *)
(***************************************************************************)
\* C38: at most one of ESC_PENDING and DOUBLE_ESC holds, the 300 ms timer is
\* armed exactly in ESC_PENDING and the 200 ms timer exactly in DOUBLE_ESC,
\* and while AI mode is active the detector is in IDLE with no timer armed.
C38_DetectorStatesAndTimers ==
    /\ ~(esc_pending /\ double_esc_pending)
    /\ esc_timer <=> esc_pending
    /\ shortcut_timer <=> double_esc_pending
    /\ ai_mode => (~esc_pending /\ ~double_esc_pending /\ ~esc_timer /\ ~shortcut_timer)

\* ESC was read, ESC was read again in a later read, and the 200 ms timer has
\* fired: the detector went through ESC_PENDING and DOUBLE_ESC and AI mode is
\* active with the detector in IDLE.
C38_Witness ==
    /\ ai_mode /\ aiEnters = 1
    /\ lastEvent.kind = "shortcut_timeout"
    /\ stdinReads = 2
    /\ ~esc_pending /\ ~double_esc_pending /\ ~esc_timer /\ ~shortcut_timer
    /\ toMaster = <<>>

(***************************************************************************)
(* The two AI-mode flags (SpecAiInput)                                     *)
(***************************************************************************)
\* Calls of the entry callbacks so far: the toggle callback of double ESC and
\* the two shortcut callbacks.
EntryCalls == aiEnters + fixCalls + explainCalls

\* C39: after every handler the active flag of the AI-mode handler equals the
\* AI-mode flag of the wrapper; a step that sets them is one call of an entry
\* callback (double ESC or a shortcut), a step that clears them is a read of
\* terminal input in AI mode that holds ESC, and no other step changes them.
C39_AiModeFlagsAgree ==
    /\ [](ai_active = ai_mode)
    /\ [][/\ (~ai_mode /\ ai_mode') => EntryCalls' = EntryCalls + 1
          /\ (ai_mode /\ ~ai_mode') =>
                 (StdinStep /\ Contains(lastEvent'.data, ESC) /\ EntryCalls' = EntryCalls)
          /\ (ai_mode' = ai_mode /\ ~StdinStep) => EntryCalls' = EntryCalls]_vars

\* The fix-it shortcut entered AI mode, its query ended, and an ESC read at
\* the prompt left AI mode: both flags were set together and cleared together.
C39_Witness ==
    /\ ~ai_mode /\ ~ai_active
    /\ fixCalls = 1 /\ aiEnters = 0
    /\ lastEvent.kind = "stdin" /\ lastEvent.data = <<ESC>>
    /\ Len(queryTasks) = 1 /\ queryTasks[1].pc = "done"

(***************************************************************************)
(* SpecChunking: one terminal input, read in two ways.  The same bytes are *)
(* given to _on_stdin_ready of a freshly constructed wrapper once as one   *)
(* chunk and once as one chunk per byte; no timer fires in between.        *)
(***************************************************************************)
\* Bytes of the terminal input that is read in the two ways.
MaxInputLen == 4

ChunkedInputs == SeqsUpTo(StdinBytes, MaxInputLen) \ {<<>>}

ChunkingInit ==
    \E data \in ChunkedInputs :
        chunkProbe = [pc |-> "reading", data |-> data,
                      whole_read |-> FALSE, whole |-> ConstructedGesture,
                      pos |-> 1, single |-> ConstructedGesture]

\* _on_stdin_ready with os.read returning all the bytes at once
WholeChunkRead ==
    /\ chunkProbe.pc = "reading"
    /\ ~chunkProbe.whole_read
    /\ chunkProbe' = [chunkProbe EXCEPT !.whole_read = TRUE,
                                        !.whole = on_stdin_ready(@, chunkProbe.data)]
    /\ UNCHANGED <<programVars, markerProbe, scrollProbe, store, formatProbe, streamProbe, wrapper, persist>>

\* _on_stdin_ready with os.read returning the next byte alone
SingleByteRead ==
    /\ chunkProbe.pc = "reading"
    /\ chunkProbe.pos <= Len(chunkProbe.data)
    /\ chunkProbe' = [chunkProbe EXCEPT !.pos = @ + 1,
                                        !.single = on_stdin_ready(@, <<chunkProbe.data[chunkProbe.pos]>>)]
    /\ UNCHANGED <<programVars, markerProbe, scrollProbe, store, formatProbe, streamProbe, wrapper, persist>>

NextChunking == WholeChunkRead \/ SingleByteRead

InitChunking == GestureInit /\ PtyInit /\ AgentInit /\ onlcr = TRUE /\ NoMarkerProbe /\ NoScrollProbe /\ NoStore /\ NoFormatProbe /\ NoStreamProbe /\ NoWrapper /\ ChunkingInit /\ NoPersist

SpecChunking == InitChunking /\ [][NextChunking]_vars

\* Both ways of reading have consumed the whole input.
BothRead ==
    /\ chunkProbe.pc = "reading"
    /\ chunkProbe.whole_read
    /\ chunkProbe.pos > Len(chunkProbe.data)

\* What a run of the detector shows: the bytes written to the shell, the
\* gestures triggered, and the gesture it is in the middle of.
Recognised(g) ==
    <<g.toMaster, g.aiEnters, g.fixCalls, g.explainCalls,
      g.esc_pending, g.double_esc_pending>>

\* C31: for the same bytes, with no timer expiring between them, the bytes
\* written to the shell and the gestures triggered are the same whether the
\* bytes arrive in one chunk or one byte per chunk.
C31_ChunkingDoesNotMatter ==
    BothRead => Recognised(chunkProbe.whole) = Recognised(chunkProbe.single)

(***************************************************************************)
(* The compression applied to its own output (SpecScrollback).             *)
(***************************************************************************)
\* C40: the compression is idempotent and never lengthens its input:
\* compress(compress(L)) equals compress(L), and compress(L) has no more
\* lines than L.
C40_CompressIsIdempotentAndShortens ==
    scrollProbe.pc = "compressed" =>
        /\ compress(scrollProbe.final) = scrollProbe.final
        /\ Len(scrollProbe.final) <= Len(scrollProbe.lines)

\* Each of the three stages has changed the list, and the list that comes out
\* is compressed once more.
C40_Witness ==
    /\ scrollProbe.pc = "compressed"
    /\ scrollProbe.result # scrollProbe.lines
    /\ scrollProbe.compressed # scrollProbe.result
    /\ scrollProbe.final # scrollProbe.compressed
    /\ Len(scrollProbe.final) < Len(scrollProbe.lines)
    /\ compress(scrollProbe.final) = scrollProbe.final

(***************************************************************************)
(* A round that fails with an HTTP status error (SpecAgent).               *)
(***************************************************************************)
\* C35 as stated: after a turn aborted by an HTTP status error the history is
\* the one before the user's message for the turn was added, as after a
\* transport error.
C35_HttpErrorRollsBackUserMessage ==
    (agent_pc = "idle" /\ outcome = "http") => Len(messages) = turnStart

\* C35, amended: an HTTP status error aborts the turn without another request
\* and without appending a message, and it removes none: the history keeps
\* the user's message of the turn, which a transport error in the first round
\* would have rolled back.
C35_HttpErrorLeavesHistoryAsItIs ==
    [][(agent_pc = "streaming" /\ outcome' = "http") =>
           /\ agent_pc' = "idle"
           /\ requests' = requests
           /\ messages' = messages
           /\ Len(messages') > turnStart
           /\ messages'[turnStart + 1].role = "user"
           /\ pop_last_user_message(messages) # messages => round = 1]_vars

\* C35 happens: the first request of a turn has failed with an HTTP status
\* error and the user's message is the last of the history.
C35_Witness ==
    /\ agent_pc = "idle" /\ outcome = "http" /\ round = 1 /\ requests = 1
    /\ Len(messages) = turnStart + 1
    /\ messages[Len(messages)].role = "user"

(***************************************************************************)
(* The history when a turn has ended (SpecAgent).                          *)
(***************************************************************************)
\* C34: in every state in which a turn has ended, complete, aborted by an
\* error or cancelled at any point, every tool call recorded in an assistant
\* message of the history is followed by a tool-result message carrying its
\* id.
C34_EndedTurnKeepsNoCallWithoutResult ==
    (agent_pc = "idle" /\ outcome # "none") => ResultsFollowCalls(messages)

(***************************************************************************)
(* SpecPersist: the queries of one AI-mode session and what they persist   *)
(* (ai_mode.py, agent.py, storage.py).  A query is the task that           *)
(* handle_input creates for a line; between two awaits a task runs alone.  *)
(***************************************************************************)
\* Queries submitted in one behaviour.
MaxPersistQueries == 3
\* Rounds of the agent loop in one query.
MaxPersistRounds == 2

\* Lines followed by Enter that one read of the terminal input carries.
LinesPerChunk == {1, 2}

\* How a round ends: a final text; no text and no tool call; tool calls; a
\* transport error; an HTTP status error; another exception caught by the
\* loop; the cancellation of the task; a KeyboardInterrupt after some text.
RoundOutcomes ==
    {"text", "empty", "tools", "transport", "http", "other", "cancelled", "interrupted"}

\* The outcomes after which run_agent_loop has returned to _run_query.
LoopReturned == {"text", "empty", "transport", "http", "other"}

\* The line of the q-th query.
QueryText(q) == <<"q">> \o Decimal(q)

PersistInit ==
    persist = [pc |-> "open", messages |-> <<SystemRecord>>, save_index |-> 1,
               db |-> save_messages(EmptyDb, "this", <<SystemRecord>>, 0),
               running_agent |-> FALSE, tasks |-> <<>>, last |-> "-"]

\* _run_query after run_agent_loop has returned: the messages from
\* _save_index on are saved and _save_index becomes len(messages)
persist_messages(p) ==
    [p EXCEPT !.db = save_messages(@, "this", p.messages, p.save_index),
              !.save_index = Len(p.messages)]

\* The end of _run_query: the save when the loop has returned, the except
\* clauses, which change nothing, and the finally block
run_query_ends(p, t, how) ==
    [(IF how \in LoopReturned THEN persist_messages(p) ELSE p)
        EXCEPT !.running_agent = FALSE, !.tasks[t].pc = "done", !.last = how]

PersistFrame ==
    UNCHANGED <<programVars, markerProbe, scrollProbe, store, formatProbe, streamProbe, wrapper, chunkProbe>>

\* AIMode.handle_input reads a chunk with n lines, each ended by Enter: a task
\* is created for each.  The handler looks at the chunk only while no agent
\* runs, and a task created by an earlier chunk has started by then.
LinesEntered(n) ==
    /\ persist.pc = "open"
    /\ ~persist.running_agent
    /\ \A t \in 1..Len(persist.tasks) : persist.tasks[t].pc # "created"
    /\ Len(persist.tasks) + n <= MaxPersistQueries
    /\ persist' = [persist EXCEPT
                      !.tasks = @ \o [k \in 1..n |-> [pc |-> "created", round |-> 0]],
                      !.last = "-"]
    /\ PersistFrame

\* _run_query starts, in the order of creation: _running_agent is set, the
\* line is added as the user message and the first request is awaited.
RunQueryStarts(t) ==
    /\ persist.pc = "open"
    /\ t \in 1..Len(persist.tasks)
    /\ persist.tasks[t].pc = "created"
    /\ \A u \in 1..(t - 1) : persist.tasks[u].pc # "created"
    /\ persist' = [persist EXCEPT
                      !.running_agent = TRUE,
                      !.messages = Append(@, Record("user", QueryText(t), FALSE, <<>>, Absent)),
                      !.tasks[t] = [pc |-> "stream", round |-> 1],
                      !.last = "-"]
    /\ PersistFrame

\* The stream of a round of task t ends.
RoundOver(t, how) ==
    /\ persist.pc = "open"
    /\ t \in 1..Len(persist.tasks)
    /\ persist.tasks[t].pc = "stream"
    /\ how = "tools" => persist.tasks[t].round < MaxPersistRounds
    /\ persist' =
          CASE how = "text" ->
                   run_query_ends(
                       [persist EXCEPT !.messages =
                            Append(@, Record("assistant", <<"a">>, FALSE, <<>>, Absent))],
                       t, how)
            [] how = "interrupted" ->
                   run_query_ends(
                       [persist EXCEPT !.messages =
                            Append(@, Record("assistant", <<"a">>, FALSE, <<>>, Absent))],
                       t, how)
            [] how = "tools" ->
                   [persist EXCEPT !.messages =
                                       Append(@, Record("assistant", Absent, TRUE, <<CallA>>, Absent)),
                                   !.tasks[t].pc = "tool",
                                   !.last = "-"]
            [] how = "transport" ->
                   run_query_ends(
                       [persist EXCEPT !.messages = pop_last_user_message(@)], t, how)
            [] OTHER -> run_query_ends(persist, t, how)
    /\ PersistFrame

\* The tool call of task t returns and its result is recorded, or the task is
\* cancelled while the tool runs.
ToolOver(t, how) ==
    /\ persist.pc = "open"
    /\ t \in 1..Len(persist.tasks)
    /\ persist.tasks[t].pc = "tool"
    /\ persist' =
          IF how = "returns"
          THEN [persist EXCEPT !.messages =
                                   Append(@, Record("tool", <<"a">>, FALSE, <<>>, <<"id_a">>)),
                               !.tasks[t] = [pc |-> "stream", round |-> @.round + 1],
                               !.last = "-"]
          ELSE run_query_ends(persist, t, "cancelled")
    /\ PersistFrame

NextPersist ==
    \/ \E n \in LinesPerChunk : LinesEntered(n)
    \/ \E t \in 1..MaxPersistQueries : RunQueryStarts(t)
    \/ \E t \in 1..MaxPersistQueries, how \in RoundOutcomes : RoundOver(t, how)
    \/ \E t \in 1..MaxPersistQueries, how \in {"returns", "cancelled"} : ToolOver(t, how)

InitPersist == GestureInit /\ PtyInit /\ AgentInit /\ onlcr = TRUE /\ NoMarkerProbe /\ NoScrollProbe /\ NoStore /\ NoFormatProbe /\ NoStreamProbe /\ NoWrapper /\ NoChunkProbe /\ PersistInit

SpecPersist == InitPersist /\ [][NextPersist]_vars

\* What load_session returns for the session.
Persisted == load_session(persist.db, "this")

IsPrefixOf(s, t) == Len(s) <= Len(t) /\ SubSeq(t, 1, Len(s)) = s

====
